---- MODULE Spec2Model ----
(***************************************************************************)
(* A model of the extraction-and-matching engine of code-on-rails (cr):    *)
(* the matcher (internal/matcher), the pattern store operations of the     *)
(* command line (cmd/cr) and the analyzer (internal/analyzer).             *)
(*                                                                         *)
(* Scores are Go float64 values.  They are modelled bit-exactly as         *)
(* sign * mantissa * 2^exponent with a 53-bit mantissa and IEEE-754         *)
(* round-to-nearest-even, because the score arithmetic (square roots, a    *)
(* division and two multiplications) rounds.  Mantissas do not fit TLC's   *)
(* 32-bit integers, so they are kept as little-endian sequences of limbs.  *)
(***************************************************************************)
EXTENDS Integers, Sequences, FiniteSets, TLC

(***************************************************************************)
(* Natural numbers of any size: little-endian limb sequences, no leading   *)
(* (high) zero limb; <<>> is zero.                                         *)
(***************************************************************************)
LimbBits == 15
LimbBase == 2 ^ LimbBits

RECURSIVE BTrim(_)
BTrim(a) ==
  IF a = <<>> THEN <<>>
  ELSE IF a[Len(a)] = 0 THEN BTrim(SubSeq(a, 1, Len(a) - 1))
  ELSE a

RECURSIVE BFromInt(_)
BFromInt(n) ==
  IF n = 0 THEN <<>> ELSE <<n % LimbBase>> \o BFromInt(n \div LimbBase)

BHead(a) == IF a = <<>> THEN 0 ELSE Head(a)
BTail(a) == IF a = <<>> THEN <<>> ELSE Tail(a)

RECURSIVE BAddC(_, _, _)
BAddC(a, b, c) ==
  IF a = <<>> /\ b = <<>> THEN (IF c = 0 THEN <<>> ELSE <<c>>)
  ELSE LET x == BHead(a) + BHead(b) + c
       IN  <<x % LimbBase>> \o BAddC(BTail(a), BTail(b), x \div LimbBase)

BAdd(a, b) == BAddC(a, b, 0)

\* a - b - c for a >= b + c (c is the borrow)
RECURSIVE BSubC(_, _, _)
BSubC(a, b, c) ==
  IF a = <<>> THEN <<>>
  ELSE LET x == Head(a) - BHead(b) - c
       IN  IF x < 0 THEN <<x + LimbBase>> \o BSubC(Tail(a), BTail(b), 1)
           ELSE <<x>> \o BSubC(Tail(a), BTail(b), 0)

BSub(a, b) == BTrim(BSubC(a, b, 0))

\* compare the limbs i..1 of two numbers of equal length: -1, 0 or 1
RECURSIVE BCmpAt(_, _, _)
BCmpAt(a, b, i) ==
  IF i = 0 THEN 0
  ELSE IF a[i] < b[i] THEN -1
  ELSE IF a[i] > b[i] THEN 1
  ELSE BCmpAt(a, b, i - 1)

BCmp(a, b) ==
  IF Len(a) < Len(b) THEN -1
  ELSE IF Len(a) > Len(b) THEN 1
  ELSE BCmpAt(a, b, Len(a))

\* a * k + c for 0 <= k, c < LimbBase
RECURSIVE BMulSmallC(_, _, _)
BMulSmallC(a, k, c) ==
  IF a = <<>> THEN (IF c = 0 THEN <<>> ELSE <<c>>)
  ELSE LET x == Head(a) * k + c
       IN  <<x % LimbBase>> \o BMulSmallC(Tail(a), k, x \div LimbBase)

BMulSmall(a, k) == BTrim(BMulSmallC(a, k, 0))

RECURSIVE BMulR(_, _)
BMulR(a, b) ==
  IF b = <<>> THEN <<>>
  ELSE BAdd(BMulSmallC(a, Head(b), 0), <<0>> \o BMulR(a, Tail(b)))

BMul(a, b) == BTrim(BMulR(a, b))

BShlLimbs(a, k) == IF a = <<>> THEN <<>> ELSE [i \in 1..k |-> 0] \o a

\* a * 2^n
BShl(a, n) == BShlLimbs(BMulSmall(a, 2 ^ (n % LimbBits)), n \div LimbBits)

\* the quotient of a by d, 0 < d < LimbBase, from the high limb i down, r the remainder so far
RECURSIVE BDivSmallAt(_, _, _, _)
BDivSmallAt(a, d, i, r) ==
  IF i = 0 THEN <<>>
  ELSE LET x == r * LimbBase + a[i]
       IN  BDivSmallAt(a, d, i - 1, x % d) \o <<x \div d>>

\* floor(a / 2^n)
BShr(a, n) ==
  LET k == n \div LimbBits
      b == IF k >= Len(a) THEN <<>> ELSE SubSeq(a, k + 1, Len(a))
  IN  BTrim(BDivSmallAt(b, 2 ^ (n % LimbBits), Len(b), 0))

RECURSIVE IntBitLen(_)
IntBitLen(n) == IF n = 0 THEN 0 ELSE 1 + IntBitLen(n \div 2)

BBitLen(a) ==
  IF a = <<>> THEN 0 ELSE LimbBits * (Len(a) - 1) + IntBitLen(a[Len(a)])

\* the largest digit d in lo..hi with test(d); test(lo) holds and test is downward closed
RECURSIVE BDigit(_, _, _, _)
BDigit(D, rem, lo, hi) ==
  IF lo = hi THEN lo
  ELSE LET mid == (lo + hi + 1) \div 2
       IN  IF BCmp(BMulSmall(D, mid), rem) <= 0 THEN BDigit(D, rem, mid, hi)
           ELSE BDigit(D, rem, lo, mid - 1)

\* long division of N by D > 0 from the high limb i down: <<quotient, remainder>>
RECURSIVE BDivModAt(_, _, _, _)
BDivModAt(N, D, i, rem) ==
  IF i = 0 THEN <<(<<>>), rem>>
  ELSE IF rem = <<>> /\ N[i] = 0
  THEN LET rest == BDivModAt(N, D, i - 1, <<>>)
       IN  <<rest[1] \o <<0>>, rest[2]>>
  ELSE LET cur  == <<N[i]>> \o rem
           d    == BDigit(D, cur, 0, LimbBase - 1)
           rest == BDivModAt(N, D, i - 1, BSub(cur, BMulSmall(D, d)))
       IN  <<rest[1] \o <<d>>, rest[2]>>

BDivMod(N, D) ==
  LET r == BDivModAt(N, D, Len(N), <<>>) IN <<BTrim(r[1]), r[2]>>

\* the largest d in lo..hi with (r + d * LimbBase^k)^2 <= N
RECURSIVE BSqrtDigit(_, _, _, _, _)
BSqrtDigit(N, r, k, lo, hi) ==
  IF lo = hi THEN lo
  ELSE LET mid == (lo + hi + 1) \div 2
           t   == BAdd(r, BShlLimbs(<<mid>>, k))
       IN  IF BCmp(BMul(t, t), N) <= 0 THEN BSqrtDigit(N, r, k, mid, hi)
           ELSE BSqrtDigit(N, r, k, lo, mid - 1)

\* floor(sqrt(N)), found limb by limb from limb position k down to 0
RECURSIVE BISqrtAt(_, _, _)
BISqrtAt(N, r, k) ==
  IF k < 0 THEN r
  ELSE LET d == BSqrtDigit(N, r, k, 0, LimbBase - 1)
       IN  IF d = 0 THEN BISqrtAt(N, r, k - 1)
           ELSE BISqrtAt(N, BAdd(r, BShlLimbs(<<d>>, k)), k - 1)

BISqrt(N) == BISqrtAt(N, <<>>, ((Len(N) + 1) \div 2) - 1)

(***************************************************************************)
(* Go float64.  A value is [s, m, e]: (-1)^s * m * 2^e, m a natural number *)
(* of exactly MantBits bits, or zero (m = <<>>, e = 0, s = 0).  The scores *)
(* of the matcher lie between 2^-60 and 2^20 in magnitude, so exponent     *)
(* overflow, subnormals, infinities and NaN do not arise and are not       *)
(* represented.                                                            *)
(***************************************************************************)
MantBits == 53

F64Zero == [s |-> 0, m |-> <<>>, e |-> 0]

\* (-1)^s * (M + f) * 2^e rounded to nearest, ties to even, where 0 <= f < 1 and
\* f > 0 exactly when sticky; a sticky M has more than MantBits + 1 bits
F64Round(s, M, e, sticky) ==
  LET L == BBitLen(M)
  IN  IF M = <<>> THEN F64Zero
      ELSE IF L <= MantBits
      THEN [s |-> s, m |-> BShl(M, MantBits - L), e |-> e - (MantBits - L)]
      ELSE LET sh   == L - MantBits
               q    == BShr(M, sh)
               r    == BSub(M, BShl(q, sh))
               half == BShl(<<1>>, sh - 1)
               c    == BCmp(r, half)
               up   == c > 0 \/ (c = 0 /\ (sticky \/ q[1] % 2 = 1))
               q2   == IF up THEN BAdd(q, <<1>>) ELSE q
           IN  IF BBitLen(q2) > MantBits
               THEN [s |-> s, m |-> BShr(q2, 1), e |-> e + sh + 1]
               ELSE [s |-> s, m |-> q2, e |-> e + sh]

\* float64(n) for an int n
F64FromInt(n) ==
  IF n < 0 THEN F64Round(1, BFromInt(-n), 0, FALSE)
  ELSE F64Round(0, BFromInt(n), 0, FALSE)

\* x * 2^k (exact): the literal 1.5 is F64Scale(F64FromInt(3), -1)
F64Scale(x, k) == IF x.m = <<>> THEN x ELSE [x EXCEPT !.e = x.e + k]

\* |x| compared with |y|: -1, 0 or 1
F64CmpMag(x, y) ==
  IF x.m = <<>> THEN (IF y.m = <<>> THEN 0 ELSE -1)
  ELSE IF y.m = <<>> THEN 1
  ELSE IF x.e < y.e THEN -1
  ELSE IF x.e > y.e THEN 1
  ELSE BCmp(x.m, y.m)

\* x compared with y: -1, 0 or 1
F64Cmp(x, y) ==
  IF x.s = 0 /\ y.s = 0 THEN F64CmpMag(x, y)
  ELSE IF x.s = 1 /\ y.s = 1 THEN F64CmpMag(y, x)
  ELSE IF x.s = 1 THEN -1
  ELSE 1

F64Lt(x, y) == F64Cmp(x, y) < 0
F64Le(x, y) == F64Cmp(x, y) <= 0
F64Gt(x, y) == F64Cmp(x, y) > 0
F64Ge(x, y) == F64Cmp(x, y) >= 0

\* x + y: the exact sum, rounded
F64Add(x, y) ==
  IF x.m = <<>> THEN y
  ELSE IF y.m = <<>> THEN x
  ELSE LET e  == IF x.e < y.e THEN x.e ELSE y.e
           xm == BShl(x.m, x.e - e)
           ym == BShl(y.m, y.e - e)
           c  == BCmp(xm, ym)
       IN  IF x.s = y.s THEN F64Round(x.s, BAdd(xm, ym), e, FALSE)
           ELSE IF c = 0 THEN F64Zero
           ELSE IF c > 0 THEN F64Round(x.s, BSub(xm, ym), e, FALSE)
           ELSE F64Round(y.s, BSub(ym, xm), e, FALSE)

\* x * y: the exact product, rounded
F64Mul(x, y) ==
  IF x.m = <<>> \/ y.m = <<>> THEN F64Zero
  ELSE F64Round((x.s + y.s) % 2, BMul(x.m, y.m), x.e + y.e, FALSE)

\* x / y for y # 0: a quotient of MantBits + 3 or more bits, the remainder sticky
F64Div(x, y) ==
  IF x.m = <<>> THEN F64Zero
  ELSE LET qr == BDivMod(BShl(x.m, MantBits + 3), y.m)
       IN  F64Round((x.s + y.s) % 2, qr[1], x.e - y.e - (MantBits + 3), qr[2] # <<>>)

\* math.Sqrt(x) for x >= 0: the integer root of m * 2^(2k), the remainder sticky
F64Sqrt(x) ==
  IF x.m = <<>> THEN F64Zero
  ELSE LET odd == x.e % 2 = 1
           m2  == IF odd THEN BShl(x.m, 1) ELSE x.m
           e2  == IF odd THEN x.e - 1 ELSE x.e
           k   == (MantBits + 5) \div 2
           N   == BShl(m2, 2 * k)
           R   == BISqrt(N)
       IN  F64Round(0, R, (e2 \div 2) - k, BCmp(BMul(R, R), N) # 0)

\* math.Max(x, y)
F64Max(x, y) == IF F64Lt(x, y) THEN y ELSE x

\* the natural number a, which fits an int
RECURSIVE BToInt(_)
BToInt(a) == IF a = <<>> THEN 0 ELSE Head(a) + LimbBase * BToInt(Tail(a))

\* int(x) for 0 <= x < 2^31: truncation toward zero
F64Trunc(x) ==
  IF x.m = <<>> THEN 0
  ELSE IF x.e >= 0 THEN BToInt(BShl(x.m, x.e))
  ELSE BToInt(BShr(x.m, -x.e))

(***************************************************************************)
(* Package strings, on TLC's strings.                                      *)
(***************************************************************************)
HasPrefix(s, p) == Len(s) >= Len(p) /\ SubSeq(s, 1, Len(p)) = p

HasSuffix(s, p) == Len(s) >= Len(p) /\ SubSeq(s, Len(s) - Len(p) + 1, Len(s)) = p

StringsContains(s, sub) ==
  \E i \in 1..(Len(s) - Len(sub) + 1) : SubSeq(s, i, i + Len(sub) - 1) = sub

\* strings.ReplaceAll(s, c, "") for a one-character c
RECURSIVE RemoveAll(_, _)
RemoveAll(s, c) ==
  IF s = "" THEN ""
  ELSE (IF SubSeq(s, 1, 1) = c THEN "" ELSE SubSeq(s, 1, 1))
         \o RemoveAll(SubSeq(s, 2, Len(s)), c)

\* strings.TrimSpace, for the white space of the modelled lines: space and tab
RECURSIVE TrimLeft(_)
TrimLeft(s) ==
  IF s # "" /\ SubSeq(s, 1, 1) \in {" ", "\t"} THEN TrimLeft(SubSeq(s, 2, Len(s)))
  ELSE s

RECURSIVE TrimRight(_)
TrimRight(s) ==
  IF s # "" /\ SubSeq(s, Len(s), Len(s)) \in {" ", "\t"}
  THEN TrimRight(SubSeq(s, 1, Len(s) - 1))
  ELSE s

TrimSpace(s) == TrimRight(TrimLeft(s))

\* strings.TrimPrefix
TrimPrefix(s, prefix) ==
  IF HasPrefix(s, prefix) THEN SubSeq(s, Len(prefix) + 1, Len(s)) ELSE s

\* strings.SplitN(s, ":", 2)
SplitColon(s) ==
  IF \E i \in 1..Len(s) : SubSeq(s, i, i) = ":"
  THEN LET i == CHOOSE i \in 1..Len(s) :
                  /\ SubSeq(s, i, i) = ":"
                  /\ \A j \in 1..(i - 1) : SubSeq(s, j, j) # ":"
       IN  <<SubSeq(s, 1, i - 1), SubSeq(s, i + 1, Len(s))>>
  ELSE <<s>>

\* contains(slice, item) of the matcher
contains(slice, item) == \E i \in 1..Len(slice) : slice[i] = item

(***************************************************************************)
(* Package patterns: the pattern categories, the deviation vocabulary.    *)
(***************************************************************************)
PatternHTTPHandler == "http_handler"
PatternService     == "service"
PatternRepository  == "repository"
PatternMiddleware  == "middleware"
PatternModel       == "model"
PatternUtil        == "util"
PatternComponent      == "component"
PatternHook           == "hook"
PatternContext        == "context"
PatternPage           == "page"
PatternAPI            == "api"
PatternStore          == "store"
PatternTypeDefinition == "types"
PatternStorybook      == "storybook"
PatternStyled         == "styled"

DeviationMissing == "missing"
DeviationNovel   == "novel"
SeverityError    == "error"
SeverityWarning  == "warning"

(***************************************************************************)
(* Source files.  A file is described by what the Go parser and the        *)
(* annotation scanner read from it: whether it parses, its leading lines   *)
(* (the comment header and the first line of code), its package clause,    *)
(* its imports (one import declaration), its functions (each               *)
(* `func Name() { ... }`, with a pointer receiver when Receiver is set),   *)
(* its types (`type T struct{}` or `type T interface{}`), and in the       *)
(* function bodies Calls statements `g()` and ErrChecks statements         *)
(* `if err != nil { return }`, and Vars declarations `var x T`.            *)
(***************************************************************************)
NodeKinds ==
  {"File", "Ident", "GenDecl", "ImportSpec", "BasicLit", "FuncDecl", "FuncType",
   "FieldList", "Field", "StarExpr", "BlockStmt", "ExprStmt", "CallExpr", "IfStmt",
   "BinaryExpr", "ReturnStmt", "ValueSpec", "TypeSpec", "StructType", "InterfaceType"}

CountWhere(seq, Test(_)) == Cardinality({i \in 1..Len(seq) : Test(seq[i])})

\* the nodes ast.Inspect visits in the file, per kind
NodeCount(f, kind) ==
  LET imports   == Len(f.Imports)
      funcs     == Len(f.Functions)
      IsMethod(fn) == fn.Receiver # ""
      methods   == CountWhere(f.Functions, IsMethod)
      types     == Len(f.Types)
      IsStruct(t) == t.Kind = "struct"
      IsIface(t)  == t.Kind = "interface"
      structs   == CountWhere(f.Types, IsStruct)
      ifaces    == CountWhere(f.Types, IsIface)
  IN  CASE kind = "File"          -> 1
        [] kind = "Ident"         -> 1 + funcs + 2 * methods + types + f.Calls
                                       + 2 * f.ErrChecks + 2 * f.Vars
        [] kind = "GenDecl"       -> (IF imports > 0 THEN 1 ELSE 0) + types + f.Vars
        [] kind = "ImportSpec"    -> imports
        [] kind = "BasicLit"      -> imports
        [] kind = "FuncDecl"      -> funcs
        [] kind = "FuncType"      -> funcs
        [] kind = "FieldList"     -> funcs + methods + structs + ifaces
        [] kind = "Field"         -> methods
        [] kind = "StarExpr"      -> methods
        [] kind = "BlockStmt"     -> funcs + f.ErrChecks
        [] kind = "ExprStmt"      -> f.Calls
        [] kind = "CallExpr"      -> f.Calls
        [] kind = "IfStmt"        -> f.ErrChecks
        [] kind = "BinaryExpr"    -> f.ErrChecks
        [] kind = "ReturnStmt"    -> f.ErrChecks
        [] kind = "ValueSpec"     -> f.Vars
        [] kind = "TypeSpec"      -> types
        [] kind = "StructType"    -> structs
        [] kind = "InterfaceType" -> ifaces
        [] OTHER                  -> 0

\* countNodeTypes: a Go map, so only the kinds that occur are keys
countNodeTypes(f) ==
  LET present == {k \in NodeKinds : NodeCount(f, k) > 0}
  IN  [k \in present |-> NodeCount(f, k)]

\* a[k] of a Go map[string]int: the zero value for a missing key
MapGet(a, k) == IF k \in DOMAIN a THEN a[k] ELSE 0

\* the sum of the values of a function with a finite domain
RECURSIVE SumFn(_)
SumFn(f) ==
  IF DOMAIN f = {} THEN 0
  ELSE LET k == CHOOSE x \in DOMAIN f : TRUE
       IN  f[k] + SumFn([x \in DOMAIN f \ {k} |-> f[x]])

\* cosineSimilarity.  The three sums run over integers far below 2^53, which
\* float64 adds and multiplies exactly, so they are the integer sums whatever
\* order the map iteration takes; the square roots, their product and the
\* quotient round.
cosineSimilarity(a, b) ==
  LET keys == DOMAIN a \cup DOMAIN b
      dotProduct == F64FromInt(SumFn([k \in keys |-> MapGet(a, k) * MapGet(b, k)]))
      magA == F64FromInt(SumFn([k \in keys |-> MapGet(a, k) * MapGet(a, k)]))
      magB == F64FromInt(SumFn([k \in keys |-> MapGet(b, k) * MapGet(b, k)]))
  IN  IF magA = F64Zero \/ magB = F64Zero THEN F64Zero
      ELSE F64Div(dotProduct, F64Mul(F64Sqrt(magA), F64Sqrt(magB)))

\* extractImports
extractImports(f) == f.Imports

\* checkErrorHandling: some `if <x> != nil`
checkErrorHandling(f) == f.ErrChecks > 0

(***************************************************************************)
(* The files of the working tree the model draws from.  Paths are as       *)
(* filepath.Walk(".") yields them.                                         *)
(*   golden.go   annotated golden example of util                          *)
(*   strings.go  a plain util file                                         *)
(*   render.go   a util file written after the patterns were learned       *)
(*   table.go    a plain util file with an error check                     *)
(*   draft.go    annotated golden example of util with a syntax error      *)
(*   user_handler.go  annotated golden example of http_handler             *)
(*   wire.go     annotated golden example of model, 19 imports             *)
(***************************************************************************)
GoldenGo  == "internal/util/golden.go"
StringsGo == "internal/util/strings.go"
RenderGo  == "internal/util/render.go"
TableGo   == "internal/util/table.go"
DraftGo   == "internal/util/draft.go"
HandlerGo == "api/handlers/user_handler.go"
WireGo    == "internal/models/wire.go"

HookTs    == "src/hooks/useToggle.ts"
FormatTs  == "src/utils/format.ts"
ParseTs   == "src/utils/parse.ts"

\* the Go files of the catalogue
Paths == {GoldenGo, StringsGo, RenderGo, TableGo, DraftGo, HandlerGo, WireGo}

\* the largest group of the tree
MaxGroup == Cardinality(Paths)

\* extractGoPatterns: "Need at least 3 examples to call it a pattern"
MinExamples == 3

Fn(name) == [Name |-> name, Receiver |-> ""]
Struct(name) == [Name |-> name, Kind |-> "struct"]

GoldenHeader(category, next) ==
  <<"// @code-on-rails: golden-example", "// @pattern: " \o category,
    "// @author: @alice", next>>

WireImports ==
  <<"context", "database/sql", "encoding/json", "errors", "math", "io", "log",
    "net/http", "os", "path/filepath", "regexp", "sort", "strconv", "strings",
    "sync", "time", "unicode", "bytes", "bufio">>

\* the longest import list of the tree
MaxImports == Len(WireImports)

Source ==
  [p \in Paths |->
    CASE p = GoldenGo ->
           [Parses |-> TRUE, Header |-> GoldenHeader("util", "package util"),
            Package |-> "util", Imports |-> <<"fmt">>,
            Functions |-> <<Fn("Format")>>, Types |-> <<Struct("Options")>>,
            Calls |-> 0, ErrChecks |-> 0, Vars |-> 0]
      [] p = StringsGo ->
           [Parses |-> TRUE, Header |-> <<"package util">>,
            Package |-> "util", Imports |-> <<"fmt", "strings">>,
            Functions |-> <<Fn("Join")>>, Types |-> <<>>,
            Calls |-> 1, ErrChecks |-> 0, Vars |-> 0]
      [] p = RenderGo ->
           [Parses |-> TRUE, Header |-> <<"package util">>,
            Package |-> "util", Imports |-> <<"fmt", "strings", "os", "io">>,
            Functions |-> <<Fn("Render")>>, Types |-> <<Struct("Renderer")>>,
            Calls |-> 3, ErrChecks |-> 0, Vars |-> 0]
      [] p = TableGo ->
           [Parses |-> TRUE, Header |-> <<"package util">>,
            Package |-> "util", Imports |-> <<"fmt", "sort", "bytes">>,
            Functions |-> <<Fn("Rows"), Fn("Cols")>>, Types |-> <<>>,
            Calls |-> 0, ErrChecks |-> 1, Vars |-> 0]
      [] p = DraftGo ->
           [Parses |-> FALSE, Header |-> GoldenHeader("util", "package util"),
            Package |-> "util", Imports |-> <<>>,
            Functions |-> <<>>, Types |-> <<>>,
            Calls |-> 0, ErrChecks |-> 0, Vars |-> 0]
      [] p = HandlerGo ->
           [Parses |-> TRUE, Header |-> GoldenHeader("http_handler", "package handlers"),
            Package |-> "handlers", Imports |-> <<"net/http", "encoding/json">>,
            Functions |-> <<Fn("UserHandler")>>, Types |-> <<>>,
            Calls |-> 2, ErrChecks |-> 1, Vars |-> 1]
      [] p = WireGo ->
           [Parses |-> TRUE, Header |-> GoldenHeader("model", "package models"),
            Package |-> "models", Imports |-> WireImports,
            Functions |-> <<Fn("Open")>>, Types |-> <<Struct("Store")>>,
            Calls |-> 2, ErrChecks |-> 2, Vars |-> 0]]

\* parser.ParseFile succeeds on path p of the tree disk (the set of existing paths)
ParseOK(disk, p) == p \in disk /\ p \in Paths /\ Source[p].Parses

(***************************************************************************)
(* The matcher: internal/matcher.                                          *)
(***************************************************************************)
ImportDeviation(refImport) ==
  [Type |-> DeviationMissing, Element |-> "import", Expected |-> refImport,
   Severity |-> SeverityWarning,
   Suggestion |-> "Consider adding import: " \o refImport]

ErrorHandlingDeviation ==
  [Type |-> DeviationMissing, Element |-> "error_handling",
   Expected |-> "proper error handling", Severity |-> SeverityWarning,
   Suggestion |-> "Add error handling like reference implementation"]

\* the import loop, were it to compare the two import lists both ways
RECURSIVE ImportDeviationsBothWays(_, _, _)
ImportDeviationsBothWays(fileImports, refImports, i) ==
  IF i > Len(refImports)
  THEN [k \in 1..Cardinality({j \in 1..Len(fileImports) :
                                ~contains(refImports, fileImports[j])}) |->
          ImportDeviation("")]
  ELSE (IF ~contains(fileImports, refImports[i])
        THEN <<ImportDeviation(refImports[i])>> ELSE <<>>)
         \o ImportDeviationsBothWays(fileImports, refImports, i + 1)

\* the import loop of scoreAgainstReference: the deviations, in reference import order
RECURSIVE ImportDeviations(_, _, _)
ImportDeviations(fileImports, refImports, i) ==
  IF i > Len(refImports) THEN <<>>
  ELSE (IF ~contains(fileImports, refImports[i])
        THEN <<ImportDeviation(refImports[i])>> ELSE <<>>)
         \o ImportDeviations(fileImports, refImports, i + 1)

\* the running score after the import loop: 100.0 less 5.0 per deviation.  Every
\* value is an integer, which float64 subtracts exactly.
ScoreAfterImports(fileImports, refImports) ==
  100 - 5 * Len(ImportDeviations(fileImports, refImports, 1))

\* the error-handling test, were it to fire whenever the two files differ
MissingErrorHandlingEitherWay(file, refFile) ==
  checkErrorHandling(refFile) # checkErrorHandling(file)

MissingErrorHandling(file, refFile) ==
  checkErrorHandling(refFile) /\ ~checkErrorHandling(file)

\* the running score before the similarity is multiplied in
ScoreBeforeSimilarity(file, refFile) ==
  ScoreAfterImports(extractImports(file), extractImports(refFile))
    - (IF MissingErrorHandling(file, refFile) THEN 10 ELSE 0)

\* compareStructure of two files that both parse
StructureSimilarity ==
  [f1 \in {p \in Paths : Source[p].Parses}, f2 \in {p \in Paths : Source[p].Parses} |->
     cosineSimilarity(countNodeTypes(Source[f1]), countNodeTypes(Source[f2]))]

\* compareStructure
compareStructure(disk, file1, file2) ==
  IF ~ParseOK(disk, file1) \/ ~ParseOK(disk, file2) THEN F64Scale(F64FromInt(1), -1)
  ELSE StructureSimilarity[file1, file2]

\* scoreAgainstReference past the parse of the reference: file and refFile parse
ScoreParsed(disk, file, refFile, filePath, referencePath) ==
  LET score == F64Mul(F64FromInt(ScoreBeforeSimilarity(file, refFile)),
                      compareStructure(disk, filePath, referencePath))
  IN  [score |-> F64Max(F64Zero, score),
       deviations |->
         ImportDeviations(extractImports(file), extractImports(refFile), 1)
           \o (IF MissingErrorHandling(file, refFile)
               THEN <<ErrorHandlingDeviation>> ELSE <<>>)]

\* ScoreParsed for every pair of files of the tree that parse, all files present
ParsedScores ==
  [filePath \in {p \in Paths : Source[p].Parses},
   referencePath \in {p \in Paths : Source[p].Parses} |->
     ScoreParsed(Paths, Source[filePath], Source[referencePath], filePath, referencePath)]

\* the literal 50.0 of scoreAgainstReference
FallbackScore == F64FromInt(50)

\* the weights the code writes: golden examples 2.0, discovered examples 1.0,
\* blessed examples 1.5 unless --weight says otherwise
GoldenWeight     == F64FromInt(2)
DiscoveredWeight == F64FromInt(1)
DefaultBlessWeight == F64Scale(F64FromInt(3), -1)

\* the values of --weight the model blesses with: the default, 3.0 and 0
BlessWeights == {DefaultBlessWeight, F64FromInt(3), F64Zero}

Weights == {GoldenWeight, DiscoveredWeight} \cup BlessWeights

\* score * weight of MatchFile for a reference that parses
WeightedScores ==
  [filePath \in {p \in Paths : Source[p].Parses},
   referencePath \in {p \in Paths : Source[p].Parses}, weight \in Weights |->
     F64Mul(ParsedScores[filePath, referencePath].score, weight)]

\* score * weight of MatchFile for a reference that does not parse
FallbackWeightedScores == [weight \in Weights |-> F64Mul(FallbackScore, weight)]


\* int(float64(n) * 0.8)
EightyPercent == [n \in 0..MaxGroup |-> F64Trunc(F64Mul(F64FromInt(n), F64Div(F64FromInt(8), F64FromInt(10))))]

\* the float64 results of the matcher and of the analyzer for the files of the
\* tree and the weights in use.  The operators below take them as memo.
Memo ==
  [scores   |-> ParsedScores,
   fallback |-> FallbackScore,
   weighted |-> WeightedScores,
   fallbackWeighted |-> FallbackWeightedScores,
   eighty   |-> EightyPercent]

\* scoreAgainstReference: the candidate filePath parses (MatchFile parsed it)
scoreAgainstReference(memo, disk, filePath, referencePath) ==
  IF ~ParseOK(disk, referencePath)
  THEN [score |-> memo.fallback, deviations |-> <<>>]
  ELSE memo.scores[filePath, referencePath]

\* weightedScore := score * ref.Weight
WeightedScore(memo, disk, filePath, referencePath, weight) ==
  IF ~ParseOK(disk, referencePath) THEN memo.fallbackWeighted[weight]
  ELSE memo.weighted[filePath, referencePath, weight]

\* shouldTryPattern
shouldTryPattern(filePath, pattern) ==
  IF pattern.Detection.FilePattern # ""
     /\ ~StringsContains(filePath, RemoveAll(pattern.Detection.FilePattern, "*"))
  THEN FALSE
  ELSE IF pattern.Detection.PackagePath # ""
          /\ ~StringsContains(filePath, RemoveAll(pattern.Detection.PackagePath, "*"))
  THEN FALSE
  ELSE TRUE

TierGolden     == "annotated_golden"
TierBlessed    == "config_blessed"
TierDiscovered == "discovered"
NoMatch        == "no_match"

\* the references of one tier of a pattern
TierOf(pattern, tier) ==
  CASE tier = TierGolden     -> pattern.AnnotatedGolden
    [] tier = TierBlessed    -> pattern.ConfigBlessed
    [] tier = TierDiscovered -> pattern.Discovered

\* the body of one tier loop of MatchFile for pattern number pi: one comparison
\* per reference, in slice order
TierComparisons(memo, disk, filePath, pats, pi, tier) ==
  LET refs == TierOf(pats[pi], tier)
  IN  [ri \in 1..Len(refs) |->
         LET r == scoreAgainstReference(memo, disk, filePath, refs[ri].Path)
         IN  [Pattern |-> pi, Tier |-> tier, Ref |-> ri,
              Path |-> refs[ri].Path, Weight |-> refs[ri].Weight,
              Score |-> r.score, Deviations |-> r.deviations,
              WeightedScore |->
                WeightedScore(memo, disk, filePath, refs[ri].Path, refs[ri].Weight)]]

\* the comparisons MatchFile makes, in the order it makes them: the patterns in
\* slice order, those that fail shouldTryPattern skipped, golden then blessed
\* then discovered
RECURSIVE Comparisons(_, _, _, _, _)
Comparisons(memo, disk, filePath, pats, pi) ==
  IF pi > Len(pats) THEN <<>>
  ELSE (IF shouldTryPattern(filePath, pats[pi])
        THEN TierComparisons(memo, disk, filePath, pats, pi, TierGolden)
               \o TierComparisons(memo, disk, filePath, pats, pi, TierBlessed)
               \o TierComparisons(memo, disk, filePath, pats, pi, TierDiscovered)
        ELSE <<>>)
         \o Comparisons(memo, disk, filePath, pats, pi + 1)

\* bestMatch after the comparisons cs[i..]: best is the number of the comparison
\* held by bestMatch (0 for nil) and bestScore its weighted score (0.0 for nil)
RECURSIVE BestFrom(_, _, _, _)
BestFrom(cs, i, best, bestScore) ==
  IF i > Len(cs) THEN best
  ELSE IF F64Gt(cs[i].WeightedScore, bestScore)
  THEN BestFrom(cs, i + 1, i, cs[i].WeightedScore)
  ELSE BestFrom(cs, i + 1, best, bestScore)

\* how the build treats the variable of a range loop: one variable for the whole
\* loop (Go up to 1.21) or one per iteration (Go 1.22 and later module versions)
PerLoop      == "per_loop"
PerIteration == "per_iteration"
LoopVarSemantics == {PerLoop, PerIteration}

Nil == <<>>
Ptr(x) == <<x>>
Deref(p) == p[1]

\* what &pattern points to when MatchFile returns, taken in iteration pi
PatternAddr(sem, pats, pi) ==
  IF sem = PerLoop THEN Ptr(pats[Len(pats)]) ELSE Ptr(pats[pi])

\* what &golden, &blessed or &discovered points to when MatchFile returns, taken
\* in iteration ri of the loop over refs
RefAddr(sem, refs, ri) ==
  IF sem = PerLoop THEN Ptr(refs[Len(refs)]) ELSE Ptr(refs[ri])

NovelDeviation ==
  [Type |-> DeviationNovel, Element |-> "file", Expected |-> "",
   Severity |-> SeverityWarning,
   Suggestion |-> "No matching pattern found. This may be a new pattern."]

\* the terminal PatternMatch, were it to carry no deviation
TerminalMatchBare(filePath) ==
  [Pattern |-> Nil, FilePath |-> filePath, Score |-> F64Zero,
   WeightedScore |-> F64Zero, MatchType |-> NoMatch,
   GoldenRef |-> Nil, BlessedRef |-> Nil, DiscoveredRef |-> Nil,
   Deviations |-> <<>>, AutoApprove |-> FALSE]

\* the PatternMatch MatchFile returns when bestMatch is nil
TerminalMatch(filePath) ==
  [Pattern |-> Nil, FilePath |-> filePath, Score |-> F64Zero,
   WeightedScore |-> F64Zero, MatchType |-> NoMatch,
   GoldenRef |-> Nil, BlessedRef |-> Nil, DiscoveredRef |-> Nil,
   Deviations |-> <<NovelDeviation>>, AutoApprove |-> FALSE]

\* the PatternMatch built in the comparison c, were AutoApprove taken from the
\* weighted score
BestMatchWeighted(sem, pats, filePath, threshold, c) ==
  LET ref == RefAddr(sem, TierOf(pats[c.Pattern], c.Tier), c.Ref)
  IN  [Pattern |-> PatternAddr(sem, pats, c.Pattern), FilePath |-> filePath,
       Score |-> c.Score, WeightedScore |-> c.WeightedScore,
       MatchType |-> c.Tier,
       GoldenRef |-> IF c.Tier = TierGolden THEN ref ELSE Nil,
       BlessedRef |-> IF c.Tier = TierBlessed THEN ref ELSE Nil,
       DiscoveredRef |-> IF c.Tier = TierDiscovered THEN ref ELSE Nil,
       Deviations |-> c.Deviations,
       AutoApprove |-> F64Ge(c.WeightedScore, threshold)]

\* the PatternMatch built in the comparison c
BestMatch(sem, pats, filePath, threshold, c) ==
  LET ref == RefAddr(sem, TierOf(pats[c.Pattern], c.Tier), c.Ref)
  IN  [Pattern |-> PatternAddr(sem, pats, c.Pattern), FilePath |-> filePath,
       Score |-> c.Score, WeightedScore |-> c.WeightedScore,
       MatchType |-> c.Tier,
       GoldenRef |-> IF c.Tier = TierGolden THEN ref ELSE Nil,
       BlessedRef |-> IF c.Tier = TierBlessed THEN ref ELSE Nil,
       DiscoveredRef |-> IF c.Tier = TierDiscovered THEN ref ELSE Nil,
       Deviations |-> c.Deviations,
       AutoApprove |-> F64Ge(c.Score, threshold)]

\* MatchFile, were the parse error of a reference returned to the caller
MatchFileStrict(memo, sem, disk, pats, threshold, filePath) ==
  IF ~ParseOK(disk, filePath)
  THEN [err |-> "failed to parse file", match |-> Nil, compared |-> <<>>]
  ELSE LET cs   == Comparisons(memo, disk, filePath, pats, 1)
           best == BestFrom(cs, 1, 0, F64Zero)
       IN  IF \E i \in 1..Len(cs) : ~ParseOK(disk, cs[i].Path)
           THEN [err |-> "failed to parse reference", match |-> Nil, compared |-> cs]
           ELSE [err |-> "", compared |-> cs,
                 match |-> IF best = 0 THEN Ptr(TerminalMatch(filePath))
                           ELSE Ptr(BestMatch(sem, pats, filePath, threshold, cs[best]))]

\* Matcher.MatchFile on a tree disk, for a matcher New(pats, threshold): the
\* error, the result and the comparisons made
MatchFile(memo, sem, disk, pats, threshold, filePath) ==
  IF ~ParseOK(disk, filePath)
  THEN [err |-> "failed to parse file", match |-> Nil, compared |-> <<>>]
  ELSE LET cs   == Comparisons(memo, disk, filePath, pats, 1)
           best == BestFrom(cs, 1, 0, F64Zero)
       IN  [err |-> "", compared |-> cs,
            match |-> IF best = 0 THEN Ptr(TerminalMatch(filePath))
                      ELSE Ptr(BestMatch(sem, pats, filePath, threshold, cs[best]))]

(***************************************************************************)
(* The annotation parser: internal/analyzer/annotations.go.  A file is the *)
(* sequence of its lines.  Of the annotation fields the model keeps the    *)
(* ones pattern extraction reads as text: type, pattern, version, reason,  *)
(* author, function name and line number.                                  *)
(***************************************************************************)
ZeroAnnotation ==
  [Type |-> "", Pattern |-> "", Version |-> "", Reason |-> "", Author |-> "",
   FunctionName |-> "", LineNumber |-> 0]

\* parseAnnotationField
parseAnnotationField(ann, line) ==
  LET parts == SplitColon(TrimPrefix(line, "// @"))
  IN  IF Len(parts) # 2 THEN ann
      ELSE LET key   == TrimSpace(parts[1])
               value == TrimSpace(parts[2])
           IN  CASE key = "pattern" -> [ann EXCEPT !.Pattern = value]
                 [] key = "version" -> [ann EXCEPT !.Version = value]
                 [] key = "reason"  -> [ann EXCEPT !.Reason = value]
                 [] key = "author"  -> [ann EXCEPT !.Author = value]
                 [] OTHER -> ann

\* the character class \w of package regexp (\s is the set in SkipSpace)
IsWord(c) ==
  c \in {"a", "b", "c", "d", "e", "f", "g", "h", "i", "j", "k", "l", "m", "n",
         "o", "p", "q", "r", "s", "t", "u", "v", "w", "x", "y", "z",
         "A", "B", "C", "D", "E", "F", "G", "H", "I", "J", "K", "L", "M", "N",
         "O", "P", "Q", "R", "S", "T", "U", "V", "W", "X", "Y", "Z",
         "0", "1", "2", "3", "4", "5", "6", "7", "8", "9", "_"}

CharAt(s, i) == IF i >= 1 /\ i <= Len(s) THEN SubSeq(s, i, i) ELSE ""

\* the first position at or after i that holds no white space
RECURSIVE SkipSpace(_, _)
SkipSpace(s, i) ==
  IF CharAt(s, i) \in {" ", "\t", "\n", "\r", "\f"} THEN SkipSpace(s, i + 1) ELSE i

\* the first position at or after i that holds no word character
RECURSIVE SkipWord(_, _)
SkipWord(s, i) == IF IsWord(CharAt(s, i)) THEN SkipWord(s, i + 1) ELSE i

\* the first position at or after i that holds ")" or lies past the end
RECURSIVE SkipToParen(_, _)
SkipToParen(s, i) ==
  IF i > Len(s) \/ CharAt(s, i) = ")" THEN i ELSE SkipToParen(s, i + 1)

\* (\w+)\s*\( matched at position i: the captured name, or none
NameAt(s, i) ==
  LET j == SkipWord(s, i)
  IN  IF j > i /\ CharAt(s, SkipSpace(s, j)) = "(" THEN <<SubSeq(s, i, j - 1)>>
      ELSE <<>>

\* func\s+(?:\([^)]+\)\s+)?(\w+)\s*\( matched at position i
FuncNameAt(s, i) ==
  IF SubSeq(s, i, i + 3) # "func" THEN <<>>
  ELSE LET k == SkipSpace(s, i + 4)
           r == SkipToParen(s, k + 1)
           t == SkipSpace(s, r + 1)
       IN  IF k = i + 4 THEN <<>>
           ELSE IF CharAt(s, k) = "(" /\ r >= k + 2 /\ r <= Len(s) /\ t > r + 1
                   /\ NameAt(s, t) # <<>>
           THEN NameAt(s, t)
           ELSE NameAt(s, k)

\* extractFunctionName: the capture of the leftmost match
extractFunctionName(line) ==
  LET starts == {i \in 1..Len(line) : i + 3 <= Len(line) /\ FuncNameAt(line, i) # <<>>}
  IN  IF starts = {} THEN ""
      ELSE FuncNameAt(line, CHOOSE i \in starts : \A j \in starts : i <= j)[1]

\* the body of the scanner loop of ParseFile for the line numbered lineNum
ParseLine(st, line, lineNum) ==
  LET trimmed == TrimSpace(line)
  IN  IF HasPrefix(trimmed, "// @code-on-rails:")
      THEN LET parts == SplitColon(trimmed)
           IN  [st EXCEPT !.inAnnotation = TRUE,
                          !.currentAnnotation =
                             [ZeroAnnotation EXCEPT
                                !.LineNumber = lineNum,
                                !.Type = IF Len(parts) = 2 THEN TrimSpace(parts[2])
                                         ELSE ""]]
      ELSE IF st.inAnnotation /\ HasPrefix(trimmed, "// @")
      THEN [st EXCEPT !.currentAnnotation =
                         parseAnnotationField(st.currentAnnotation, trimmed)]
      ELSE IF st.inAnnotation /\ ~HasPrefix(trimmed, "//")
      THEN [st EXCEPT
              !.annotations =
                 Append(st.annotations,
                        IF HasPrefix(trimmed, "func ")
                        THEN [st.currentAnnotation EXCEPT
                                !.FunctionName = extractFunctionName(trimmed)]
                        ELSE st.currentAnnotation),
              !.inAnnotation = FALSE]
      ELSE st

RECURSIVE ParseLines(_, _, _)
ParseLines(st, lines, lineNum) ==
  IF lineNum > Len(lines) THEN st
  ELSE ParseLines(ParseLine(st, lines[lineNum], lineNum), lines, lineNum + 1)

\* AnnotationParser.ParseFile on the lines of a file that opens
ParseFile(lines) ==
  ParseLines([inAnnotation |-> FALSE, currentAnnotation |-> ZeroAnnotation,
              annotations |-> <<>>], lines, 1).annotations

\* the annotations of every file of the tree (the lines below the header of a
\* file of the tree open no annotation block)
Annotations == [p \in Paths |-> ParseFile(Source[p].Header)]

\* the files of the tree in the order in which filepath.Walk(".") visits them
Walk(disk) ==
  SelectSeq(<<HandlerGo, WireGo, DraftGo, GoldenGo, RenderGo, StringsGo, TableGo,
              HookTs, FormatTs, ParseTs>>,
            LAMBDA p : p \in disk)

\* s1 \o s2 \o ... for a sequence of sequences
RECURSIVE Flatten(_)
Flatten(ss) == IF ss = <<>> THEN <<>> ELSE Head(ss) \o Flatten(Tail(ss))

\* the golden examples one file contributes
GoldenOfFile(path) ==
  LET anns == SelectSeq(Annotations[path], LAMBDA ann : ann.Type = "golden-example")
  IN  [i \in 1..Len(anns) |->
         [Path |-> path, Function |-> anns[i].FunctionName,
          Pattern |-> anns[i].Pattern, Version |-> anns[i].Version,
          BlessedBy |-> anns[i].Author, Reason |-> anns[i].Reason,
          Weight |-> GoldenWeight]]

\* AnnotationParser.FindGoldenExamples(".")
FindGoldenExamples(disk) ==
  LET files == SelectSeq(Walk(disk),
                         LAMBDA p : HasSuffix(p, ".go") /\ ~HasSuffix(p, "_test.go"))
  IN  Flatten([i \in 1..Len(files) |-> GoldenOfFile(files[i])])

\* the anti-patterns one file contributes
AntiOfFile(path) ==
  LET anns == SelectSeq(Annotations[path], LAMBDA ann : ann.Type = "anti-pattern")
  IN  [i \in 1..Len(anns) |->
         [Path |-> path, Function |-> anns[i].FunctionName,
          Pattern |-> anns[i].Pattern, Reason |-> anns[i].Reason]]

\* AnnotationParser.FindAntiPatterns(".")
FindAntiPatterns(disk) ==
  LET files == SelectSeq(Walk(disk), LAMBDA p : HasSuffix(p, ".go"))
  IN  Flatten([i \in 1..Len(files) |-> AntiOfFile(files[i])])

(***************************************************************************)
(* The analyzer: internal/analyzer, Go pattern extraction.                 *)
(***************************************************************************)
\* findGoFiles(".")
findGoFiles(disk) ==
  SelectSeq(Walk(disk),
            LAMBDA p : /\ HasSuffix(p, ".go")
                       /\ ~HasSuffix(p, "_test.go")
                       /\ ~StringsContains(p, "/vendor/"))

\* parseGoFile of a file that parses: its FileInfo
parseGoFile(filePath) ==
  [Path |-> filePath, Package |-> Source[filePath].Package,
   Imports |-> Source[filePath].Imports,
   Functions |-> Source[filePath].Functions,
   Types |-> Source[filePath].Types]

\* inferFromPackageName
inferFromPackageName(pkgName) ==
  CASE pkgName \in {"analyzer", "parser", "scanner", "lexer"} -> PatternService
    [] pkgName \in {"config", "configuration", "settings"} -> PatternUtil
    [] pkgName \in {"detector", "finder", "locator", "discovery"} -> PatternService
    [] pkgName \in {"matcher", "comparator", "validator"} -> PatternService
    [] pkgName \in {"reporter", "writer", "output", "formatter"} -> PatternService
    [] pkgName \in {"handler", "handlers", "controller", "controllers"} -> PatternHTTPHandler
    [] pkgName \in {"service", "services"} -> PatternService
    [] pkgName \in {"repository", "repositories", "repo", "repos", "store", "storage"} ->
         PatternRepository
    [] pkgName \in {"middleware", "middlewares"} -> PatternMiddleware
    [] pkgName \in {"model", "models", "entity", "entities", "domain"} -> PatternModel
    [] OTHER -> PatternUtil

\* the loop over file.Functions of inferPatternType: the decision of the first
\* function that decides, or none
RECURSIVE InferFromFunctions(_, _)
InferFromFunctions(fns, i) ==
  IF i > Len(fns) THEN <<>>
  ELSE IF HasSuffix(fns[i].Name, "Handler") THEN <<PatternHTTPHandler>>
  ELSE IF HasSuffix(fns[i].Name, "Middleware") THEN <<PatternMiddleware>>
  ELSE InferFromFunctions(fns, i + 1)

\* the loop over file.Types of inferPatternType
RECURSIVE InferFromTypes(_, _)
InferFromTypes(types, i) ==
  IF i > Len(types) THEN <<>>
  ELSE IF HasSuffix(types[i].Name, "Service") THEN <<PatternService>>
  ELSE IF HasSuffix(types[i].Name, "Repository") THEN <<PatternRepository>>
  ELSE InferFromTypes(types, i + 1)

\* inferPatternType, were the types looked at before the functions
inferPatternTypeTypesFirst(file) ==
  IF StringsContains(file.Path, "/handlers/") \/ StringsContains(file.Path, "/controllers/")
  THEN PatternHTTPHandler
  ELSE IF StringsContains(file.Path, "/services/") THEN PatternService
  ELSE IF StringsContains(file.Path, "/repository/")
          \/ StringsContains(file.Path, "/repositories/")
  THEN PatternRepository
  ELSE IF StringsContains(file.Path, "/middleware/") THEN PatternMiddleware
  ELSE IF StringsContains(file.Path, "/models/") THEN PatternModel
  ELSE IF InferFromTypes(file.Types, 1) # <<>>
  THEN InferFromTypes(file.Types, 1)[1]
  ELSE IF InferFromFunctions(file.Functions, 1) # <<>>
  THEN InferFromFunctions(file.Functions, 1)[1]
  ELSE inferFromPackageName(file.Package)

\* inferPatternType
inferPatternType(file) ==
  IF StringsContains(file.Path, "/handlers/") \/ StringsContains(file.Path, "/controllers/")
  THEN PatternHTTPHandler
  ELSE IF StringsContains(file.Path, "/services/") THEN PatternService
  ELSE IF StringsContains(file.Path, "/repository/")
          \/ StringsContains(file.Path, "/repositories/")
  THEN PatternRepository
  ELSE IF StringsContains(file.Path, "/middleware/") THEN PatternMiddleware
  ELSE IF StringsContains(file.Path, "/models/") THEN PatternModel
  ELSE IF InferFromFunctions(file.Functions, 1) # <<>>
  THEN InferFromFunctions(file.Functions, 1)[1]
  ELSE IF InferFromTypes(file.Types, 1) # <<>>
  THEN InferFromTypes(file.Types, 1)[1]
  ELSE inferFromPackageName(file.Package)

\* inferPatternType of every file of the tree that parses
InferredType ==
  [p \in {q \in Paths : Source[q].Parses} |-> inferPatternType(parseGoFile(p))]

\* groupByStructure: the group of a pattern type, <<>> for a type without files
groupByStructure(files, patternType) ==
  SelectSeq(files, LAMBDA f : InferredType[f.Path] = patternType)

\* calculateConfidence, in hundredths
calculateConfidence(group) ==
  IF Len(group) >= 10 THEN 90
  ELSE IF Len(group) >= 5 THEN 75
  ELSE IF Len(group) >= 3 THEN 60
  ELSE 50

\* generatePatternID
generatePatternID(patternType) == patternType \o "_pattern"

\* regexp.QuoteMeta
RECURSIVE QuoteMeta(_)
QuoteMeta(s) ==
  IF s = "" THEN ""
  ELSE (IF SubSeq(s, 1, 1) \in {"\\", ".", "+", "*", "?", "(", ")", "|", "[", "]",
                                "{", "}", "^", "$"}
        THEN "\\" \o SubSeq(s, 1, 1) ELSE SubSeq(s, 1, 1))
         \o QuoteMeta(SubSeq(s, 2, Len(s)))

\* importCounts[imp] of extractCommonStructure: one per import entry of a file
ImportCount(group, imp) ==
  LET entries == {<<i, j>> \in (1..Len(group)) \X (1..MaxImports) :
                    j <= Len(group[i].Imports) /\ group[i].Imports[j] = imp}
  IN  Cardinality(entries)

\* the elements of a finite set of strings as a sequence, in some order
RECURSIVE SetToSeq(_)
SetToSeq(S) ==
  IF S = {} THEN <<>>
  ELSE LET x == CHOOSE x \in S : TRUE IN <<x>> \o SetToSeq(S \ {x})

\* extractCommonStructure.  The code appends in map iteration order, which Go
\* leaves unspecified; the model lists the entries in one fixed order.
extractCommonStructure(memo, group) ==
  LET imports   == {group[i].Imports[j] :
                      <<i, j>> \in {<<i, j>> \in (1..Len(group)) \X (1..MaxImports) :
                                      j <= Len(group[i].Imports)}}
      threshold == memo.eighty[Len(group)]
      required  == SetToSeq({imp \in imports : ImportCount(group, imp) >= threshold})
  IN  [Elements |-> [i \in 1..Len(required) |->
                       [Name |-> required[i], Type |-> "import",
                        Pattern |-> QuoteMeta(required[i])]],
       Required |-> required]

\* the detection rule extractPattern sets for a pattern type
DetectionOf(patternType) ==
  CASE patternType = PatternHTTPHandler ->
         [FilePattern |-> "*_handler.go",
          FuncPattern |-> "func.*Handler.*http\\.ResponseWriter",
          StructPattern |-> "", PackagePath |-> "*/handlers"]
    [] patternType = PatternService ->
         [FilePattern |-> "*_service.go", FuncPattern |-> "",
          StructPattern |-> "type.*Service.*struct", PackagePath |-> "*/services"]
    [] patternType = PatternRepository ->
         [FilePattern |-> "*_repo.go", FuncPattern |-> "",
          StructPattern |-> "type.*Repository.*interface",
          PackagePath |-> "*/repository"]
    [] OTHER -> [FilePattern |-> "", FuncPattern |-> "", StructPattern |-> "",
                 PackagePath |-> ""]

\* extractPattern
extractPattern(memo, patternType, group) ==
  [ID |-> generatePatternID(patternType), Name |-> patternType,
   Type |-> patternType, Version |-> "1.0",
   Detection |-> DetectionOf(patternType),
   Structure |-> extractCommonStructure(memo, group),
   AnnotatedGolden |-> <<>>, ConfigBlessed |-> <<>>, Discovered |-> <<>>,
   AntiPatterns |-> <<>>,
   Confidence |-> calculateConfidence(group), SeenCount |-> Len(group)]

\* the body of the loop over groups of extractGoPatterns, were the golden
\* files of the group not skipped
PatternOfGroupKeepingGolden(memo, patternType, group, goldens, antis) ==
  [extractPattern(memo, patternType, group) EXCEPT
     !.AnnotatedGolden = goldens,
     !.AntiPatterns = antis,
     !.Discovered = [i \in 1..Len(group) |->
                       [Path |-> group[i].Path, SimilarityScore |-> 90,
                        Weight |-> DiscoveredWeight]]]

\* the body of the loop over groups of extractGoPatterns, were the tiers left
\* as extractPattern returns them
PatternOfGroupNoTiers(memo, patternType, group, goldens, antis) ==
  [extractPattern(memo, patternType, group) EXCEPT !.AntiPatterns = antis]

\* the body of the loop over groups of extractGoPatterns for one group that
\* passes the minimum-examples test
PatternOfGroup(memo, patternType, group, goldens, antis) ==
  LET isGolden(file) == \E i \in 1..Len(goldens) : goldens[i].Path = file.Path
      rest == SelectSeq(group, LAMBDA file : ~isGolden(file))
  IN  [extractPattern(memo, patternType, group) EXCEPT
         !.AnnotatedGolden = goldens,
         !.AntiPatterns = antis,
         !.Discovered = [i \in 1..Len(rest) |->
                           [Path |-> rest[i].Path, SimilarityScore |-> 90,
                            Weight |-> DiscoveredWeight]]]

\* the minimum-examples test of extractGoPatterns, were goldens not to count
EnoughExamplesBySize(group, goldens) == Len(group) >= MinExamples

\* the minimum-examples test of extractGoPatterns: the group is kept
EnoughExamples(group, goldens) == ~(Len(group) < MinExamples /\ Len(goldens) = 0)

\* the keys of the map groups of extractGoPatterns
GroupKeys(disk) == {InferredType[p] : p \in {q \in disk : ParseOK(disk, q)}}

\* extractGoPatterns(".") when the loop over the map groups visits its keys in
\* the order given
RECURSIVE GroupLoop(_, _, _, _, _, _)
GroupLoop(memo, fileInfos, goldenExamples, antiPatterns, order, i) ==
  IF i > Len(order) THEN <<>>
  ELSE LET patternType == order[i]
           group   == groupByStructure(fileInfos, patternType)
           goldens == SelectSeq(goldenExamples, LAMBDA g : g.Pattern = patternType)
           antis   == SelectSeq(antiPatterns, LAMBDA a : a.Pattern = patternType)
       IN  (IF ~EnoughExamples(group, goldens) THEN <<>>
            ELSE <<PatternOfGroup(memo, patternType, group, goldens, antis)>>)
             \o GroupLoop(memo, fileInfos, goldenExamples, antiPatterns, order, i + 1)

extractGoPatterns(memo, disk, order) ==
  LET files     == SelectSeq(findGoFiles(disk), LAMBDA p : Source[p].Parses)
      fileInfos == [i \in 1..Len(files) |-> parseGoFile(files[i])]
  IN  GroupLoop(memo, fileInfos, FindGoldenExamples(disk), FindAntiPatterns(disk), order, 1)

(***************************************************************************)
(* Pattern extraction for TypeScript and JavaScript trees.  The text        *)
(* analysis of parseTypeScriptFile is held as its result for each file of   *)
(* the catalogue.                                                           *)
(***************************************************************************)
TSPaths == {HookTs, FormatTs, ParseTs}

TSSource ==
  [p \in TSPaths |->
    CASE p = HookTs ->
           [Imports |-> <<"react">>, Functions |-> <<Fn("useToggle")>>,
            Types |-> <<>>]
      [] p = FormatTs ->
           [Imports |-> <<"lodash">>, Functions |-> <<Fn("formatDate")>>,
            Types |-> <<>>]
      [] p = ParseTs ->
           [Imports |-> <<"lodash", "dayjs">>, Functions |-> <<Fn("parseDate")>>,
            Types |-> <<>>]]

\* strings.ToLower
RECURSIVE ToLower(_)
ToLower(s) ==
  LET upper == "ABCDEFGHIJKLMNOPQRSTUVWXYZ"
      lower == "abcdefghijklmnopqrstuvwxyz"
      c     == SubSeq(s, 1, 1)
      at    == {i \in 1..26 : SubSeq(upper, i, i) = c}
  IN  IF s = "" THEN ""
      ELSE (IF at = {} THEN c ELSE LET i == CHOOSE i \in at : TRUE
                                   IN  SubSeq(lower, i, i))
             \o ToLower(SubSeq(s, 2, Len(s)))

\* filepath.Base of the path of a file
RECURSIVE Base(_)
Base(path) ==
  IF ~StringsContains(path, "/") THEN path ELSE Base(SubSeq(path, 2, Len(path)))

\* the test of findTypeScriptFiles on the path of a file, for every file of the
\* catalogue
IsTypeScriptFile ==
  [p \in Paths \cup TSPaths |->
     LET name == ToLower(Base(p))
     IN  /\ \E ext \in {".ts", ".tsx", ".js", ".jsx"} : HasSuffix(ToLower(p), ext)
         /\ ~StringsContains(p, "/node_modules/")
         /\ ~StringsContains(p, "/dist/")
         /\ ~StringsContains(p, "/build/")
         /\ ~StringsContains(p, "/.next/")
         /\ ~StringsContains(name, ".test.")
         /\ ~StringsContains(name, ".spec.")
         /\ ~StringsContains(p, "__tests__")
         /\ ~StringsContains(p, "__mocks__")]

\* findTypeScriptFiles
findTypeScriptFiles(disk) == SelectSeq(Walk(disk), LAMBDA p : IsTypeScriptFile[p])

\* parseTypeScriptFile: the FileInfo of a file
parseTypeScriptFile(filePath) ==
  LET dir == SubSeq(filePath, 1, Len(filePath) - Len(Base(filePath)) - 1)
  IN  [Path |-> filePath, Package |-> Base(dir),
       Imports |-> TSSource[filePath].Imports,
       Functions |-> TSSource[filePath].Functions,
       Types |-> TSSource[filePath].Types]

\* inferTypeScriptPatternType
inferTypeScriptPatternType(file) ==
  LET fileName == ToLower(Base(file.Path))
      filePath == ToLower(file.Path)
      react    == \E i \in 1..Len(file.Imports) :
                    file.Imports[i] = "react" \/ HasPrefix(file.Imports[i], "react/")
  IN  IF HasSuffix(fileName, ".component.tsx") \/ HasSuffix(fileName, ".component.jsx")
      THEN PatternComponent
      ELSE IF HasPrefix(fileName, "use")
              /\ (HasSuffix(fileName, ".ts") \/ HasSuffix(fileName, ".tsx"))
      THEN PatternHook
      ELSE IF StringsContains(fileName, ".hook.") \/ StringsContains(fileName, "hooks")
      THEN PatternHook
      ELSE IF StringsContains(fileName, ".context.") \/ StringsContains(filePath, "/context/")
      THEN PatternContext
      ELSE IF StringsContains(filePath, "/pages/") \/ StringsContains(filePath, "/app/")
      THEN PatternPage
      ELSE IF StringsContains(filePath, "/api/") \/ StringsContains(fileName, ".api.")
      THEN PatternAPI
      ELSE IF StringsContains(fileName, ".store.") \/ StringsContains(filePath, "/store/")
              \/ StringsContains(filePath, "/redux/")
              \/ StringsContains(filePath, "/zustand/")
      THEN PatternStore
      ELSE IF HasSuffix(fileName, ".types.ts") \/ HasSuffix(fileName, ".d.ts")
              \/ StringsContains(filePath, "/types/")
      THEN PatternTypeDefinition
      ELSE IF StringsContains(fileName, ".stories.") \/ StringsContains(filePath, "/stories/")
      THEN PatternStorybook
      ELSE IF StringsContains(fileName, ".styled.") \/ StringsContains(fileName, ".styles.")
      THEN PatternStyled
      ELSE IF StringsContains(fileName, ".service.") \/ StringsContains(filePath, "/services/")
      THEN PatternService
      ELSE IF react
      THEN (IF \E j \in 1..Len(file.Functions) : HasPrefix(file.Functions[j].Name, "use")
            THEN PatternHook ELSE PatternComponent)
      ELSE PatternUtil

\* inferTypeScriptPatternType of every file of the catalogue
TSInferredType ==
  [p \in TSPaths |-> inferTypeScriptPatternType(parseTypeScriptFile(p))]

\* groupTypeScriptByPattern: the group of a pattern type
groupTypeScriptByPattern(files, patternType) ==
  SelectSeq(files, LAMBDA f : TSInferredType[f.Path] = patternType)

\* extractTypeScriptPattern; Confidence in hundredths
extractTypeScriptPattern(patternType, files) ==
  LET imports   == {files[i].Imports[j] :
                      <<i, j>> \in {<<i, j>> \in (1..Len(files)) \X (1..MaxImports) :
                                      j <= Len(files[i].Imports)}}
      threshold == IF Len(files) \div 2 < 1 THEN 1 ELSE Len(files) \div 2
      commonImports == SetToSeq({imp \in imports : ImportCount(files, imp) >= threshold})
  IN  [ID |-> patternType \o "_pattern", Name |-> patternType,
       Type |-> patternType, Version |-> "1.0",
       Detection |-> [FilePattern |-> "", FuncPattern |-> "", StructPattern |-> "",
                      PackagePath |-> ""],
       Structure |-> [Elements |-> [i \in 1..Len(commonImports) |->
                                      [Name |-> commonImports[i], Type |-> "import",
                                       Pattern |-> QuoteMeta(commonImports[i])]],
                      Required |-> commonImports],
       AnnotatedGolden |-> <<>>, ConfigBlessed |-> <<>>, Discovered |-> <<>>,
       AntiPatterns |-> <<>>,
       Confidence |-> 80, SeenCount |-> Len(files)]

\* the keys of the map groups of extractTypeScriptPatterns
TSGroupKeys(disk) ==
  {TSInferredType[p] :
     p \in {findTypeScriptFiles(disk)[i] : i \in 1..Len(findTypeScriptFiles(disk))}}

\* extractTypeScriptPatterns(".") when the loop over the map groups visits its
\* keys in the order given
RECURSIVE TSGroupLoop(_, _, _)
TSGroupLoop(fileInfos, order, i) ==
  IF i > Len(order) THEN <<>>
  ELSE LET patternType == order[i]
           group == groupTypeScriptByPattern(fileInfos, patternType)
       IN  (IF Len(group) < 2 THEN <<>>
            ELSE <<[extractTypeScriptPattern(patternType, group) EXCEPT
                      !.Discovered = [k \in 1..Len(group) |->
                                        [Path |-> group[k].Path, SimilarityScore |-> 90,
                                         Weight |-> DiscoveredWeight]]]>>)
             \o TSGroupLoop(fileInfos, order, i + 1)

extractTypeScriptPatterns(disk, order) ==
  LET files == findTypeScriptFiles(disk)
  IN  TSGroupLoop([i \in 1..Len(files) |-> parseTypeScriptFile(files[i])], order, 1)

\* the orders in which a range over a map with the keys S may visit them
Orders(S) ==
  {o \in [1..Cardinality(S) -> S] : \A i, j \in 1..Cardinality(S) : i # j => o[i] # o[j]}

(***************************************************************************)
(* The command line: cmd/cr.  One run of cr is one action; the state holds *)
(* the working tree, the configuration file and what the running command   *)
(* produced, until the process exits.                                      *)
(***************************************************************************)
VARIABLES
  loopvar,   \* the loop-variable semantics of the build of cr
  disk,      \* the paths of the working tree that exist
  config,    \* .code-on-rails.yml: Nil when absent, else Ptr of its content
  out,       \* what the running command produced; Idle between runs
  edits,     \* how many times the tree was edited
  blessed    \* how many bless runs saved the configuration

vars == <<loopvar, disk, config, out, edits, blessed>>

MaxEdits == 1
MaxBless == 1

Idle == [cmd |-> "idle"]

\* the trees the runs start from
InitialTrees ==
  { {GoldenGo, StringsGo, HandlerGo},
    {WireGo, StringsGo},
    {RenderGo, StringsGo, TableGo},
    {DraftGo, GoldenGo, StringsGo},
    {StringsGo},
    {WireGo, DraftGo, StringsGo},
    {HookTs, FormatTs, ParseTs} }

\* the files that get written and the files that get removed
Writable  == {RenderGo, DraftGo}
Deletable == {StringsGo, GoldenGo, WireGo}

\* the files cr bless is run on
BlessArgs == {TableGo, StringsGo, DraftGo}

\* the values of --threshold: not given (0) and 80
ThresholdFlags == {F64Zero, F64FromInt(80)}

\* the values of --format
Formats == {"", "json", "github"}

\* the file lists of cr check: every single path, and a file that does not
\* parse followed by one that does
CheckArgs == {<<p>> : p \in Paths} \cup {<<DraftGo, RenderGo>>, <<StringsGo, StringsGo>>}

\* config.NewDefault
NewDefault(language) ==
  [Version |-> "1.0", Language |-> language, Patterns |-> <<>>,
   Settings |-> [AutoApproveThreshold |-> F64FromInt(95)]]

\* config.Load of a configuration file that exists
Load(cfg) ==
  IF cfg.Settings.AutoApproveThreshold = F64Zero
  THEN [cfg EXCEPT !.Settings.AutoApproveThreshold = F64FromInt(95)]
  ELSE cfg

\* detectLanguage("."): the tree holds Go files only and none of go.mod,
\* tsconfig.json, package.json
countFilesWithExtension(tree, ext) == Cardinality({p \in tree : HasSuffix(p, ext)})

\* detectLanguage(".") in a tree without go.mod, tsconfig.json and package.json
detectLanguage(tree) ==
  LET goCount == countFilesWithExtension(tree, ".go")
      tsCount == countFilesWithExtension(tree, ".ts") + countFilesWithExtension(tree, ".tsx")
      jsCount == countFilesWithExtension(tree, ".js") + countFilesWithExtension(tree, ".jsx")
  IN  IF goCount >= tsCount /\ goCount >= jsCount /\ goCount > 0 THEN "go"
      ELSE IF tsCount >= jsCount /\ tsCount > 0 THEN "typescript"
      ELSE IF jsCount > 0 THEN "javascript"
      ELSE "go"

\* Analyzer.ExtractPatterns(".")
ExtractPatterns(memo, language, tree, order, tsOrder) ==
  IF language = "go" THEN [err |-> "", patterns |-> extractGoPatterns(memo, tree, order)]
  ELSE IF language \in {"typescript", "ts", "javascript", "js", "react"}
  THEN [err |-> "", patterns |-> extractTypeScriptPatterns(tree, tsOrder)]
  ELSE [err |-> "unsupported language", patterns |-> <<>>]

Init ==
  /\ loopvar \in LoopVarSemantics
  /\ disk \in InitialTrees
  /\ config = Nil
  /\ out = Idle
  /\ edits = 0
  /\ blessed = 0

\* a file of the tree is written (created or restored)
WriteFile(p) ==
  /\ out = Idle
  /\ edits < MaxEdits
  /\ p \notin disk
  /\ disk' = disk \cup {p}
  /\ edits' = edits + 1
  /\ UNCHANGED <<loopvar, config, out, blessed>>

\* a file of the tree is removed
DeleteFile(p) ==
  /\ out = Idle
  /\ edits < MaxEdits
  /\ p \in disk
  /\ disk' = disk \ {p}
  /\ edits' = edits + 1
  /\ UNCHANGED <<loopvar, config, out, blessed>>

\* cr init
InitCmd(memo, order, tsOrder) ==
  /\ out = Idle
  /\ IF config # Nil
     THEN /\ out' = [cmd |-> "init", err |-> "", saved |-> FALSE]
          /\ UNCHANGED config
     ELSE LET language == detectLanguage(disk)
              ex == ExtractPatterns(memo, language, disk, order, tsOrder)
          IN  IF ex.err # ""
              THEN /\ out' = [cmd |-> "init", err |-> ex.err, saved |-> FALSE]
                   /\ UNCHANGED config
              ELSE /\ config' = Ptr([NewDefault(language) EXCEPT !.Patterns = ex.patterns])
                   /\ out' = [cmd |-> "init", err |-> "", saved |-> TRUE]
  /\ UNCHANGED <<loopvar, disk, edits, blessed>>

\* matcher.New
New(pats, threshold) == [Patterns |-> pats, Threshold |-> threshold]

\* the loop over files of cr check, were a call to consume the first pattern
\* of the matcher
MatchCallsConsuming(memo, sem, tree, matcher, files) ==
  [calls |->
     [i \in 1..Len(files) |->
        [file |-> files[i]] @@
        MatchFile(memo, sem, tree,
                  SubSeq(matcher.Patterns, i, Len(matcher.Patterns)),
                  matcher.Threshold, files[i])],
   matcher |-> [matcher EXCEPT !.Patterns =
                  SubSeq(matcher.Patterns, Len(files) + 1, Len(matcher.Patterns))]]

\* the loop over files of cr check: the MatchFile calls, in order, and the
\* matcher after them
MatchCalls(memo, sem, tree, matcher, files) ==
  [calls |->
     [i \in 1..Len(files) |->
        [file |-> files[i]] @@
        MatchFile(memo, sem, tree, matcher.Patterns, matcher.Threshold, files[i])],
   matcher |-> matcher]

\* the exit test of cr check
ExitCode(format, matches) ==
  IF format = ""
     /\ \E i \in 1..Len(matches) :
          /\ ~matches[i].AutoApprove
          /\ \E d \in 1..Len(matches[i].Deviations) :
               matches[i].Deviations[d].Severity = SeverityError
  THEN 1 ELSE 0

\* cr check files..., were the loop over files to stop at the first file that
\* fails to parse
CheckCmdStopping(memo, files, flag, format) ==
  /\ out = Idle
  /\ IF config = Nil
     THEN out' = [cmd |-> "check", err |-> "failed to load config", exit |-> 1]
     ELSE LET cfg       == Load(Deref(config))
              threshold == IF F64Gt(flag, F64Zero) THEN flag
                           ELSE cfg.Settings.AutoApproveThreshold
              run       == MatchCalls(memo, loopvar, disk, New(cfg.Patterns, threshold), files)
              calls     == run.calls
              bad       == {k \in 1..Len(calls) : calls[k].err # ""}
              good      == IF bad = {} THEN calls
                           ELSE SubSeq(calls, 1, (CHOOSE k \in bad : \A l \in bad : k <= l) - 1)
              matches   == [i \in 1..Len(good) |-> Deref(good[i].match)]
          IN  out' = [cmd |-> "check", err |-> "", files |-> files,
                      threshold |-> threshold, matcher |-> run.matcher,
                      calls |-> calls, matches |-> matches,
                      exit |-> ExitCode(format, matches)]
  /\ UNCHANGED <<loopvar, disk, config, edits, blessed>>

\* cr check files...
CheckCmd(memo, files, flag, format) ==
  /\ out = Idle
  /\ IF config = Nil
     THEN out' = [cmd |-> "check", err |-> "failed to load config", exit |-> 1]
     ELSE LET cfg       == Load(Deref(config))
              threshold == IF F64Gt(flag, F64Zero) THEN flag
                           ELSE cfg.Settings.AutoApproveThreshold
              run       == MatchCalls(memo, loopvar, disk, New(cfg.Patterns, threshold), files)
              calls     == run.calls
              good      == SelectSeq(calls, LAMBDA c : c.err = "")
              matches   == [i \in 1..Len(good) |-> Deref(good[i].match)]
          IN  out' = [cmd |-> "check", err |-> "", files |-> files,
                      threshold |-> threshold, matcher |-> run.matcher,
                      calls |-> calls, matches |-> matches,
                      exit |-> ExitCode(format, matches)]
  /\ UNCHANGED <<loopvar, disk, config, edits, blessed>>

\* mergePatterns, were a stored pattern replaced by the extracted one
mergePatternsReplacing(existing, new) ==
  LET hit(i) == {j \in 1..Len(new) : existing[i].ID = new[j].ID}
      first(i) == CHOOSE j \in hit(i) : \A k \in hit(i) : j <= k
  IN  [patterns |->
         [i \in 1..Len(existing) |->
            IF hit(i) = {} THEN existing[i] ELSE new[first(i)]],
       updated |-> Cardinality({i \in 1..Len(existing) : hit(i) # {}})]

\* mergePatterns: the patterns after the merge and the number updated
mergePatterns(existing, new) ==
  LET hit(i) == {j \in 1..Len(new) : existing[i].ID = new[j].ID}
      first(i) == CHOOSE j \in hit(i) : \A k \in hit(i) : j <= k
  IN  [patterns |->
         [i \in 1..Len(existing) |->
            IF hit(i) = {} THEN existing[i]
            ELSE [existing[i] EXCEPT !.SeenCount = new[first(i)].SeenCount,
                                     !.Confidence = new[first(i)].Confidence]],
       updated |-> Cardinality({i \in 1..Len(existing) : hit(i) # {}})]

\* cr learn, were every extracted pattern appended to the store
LearnCmdAppendingAll(memo, recent, order, tsOrder) ==
  /\ out = Idle
  /\ IF config = Nil
     THEN /\ out' = [cmd |-> "learn", err |-> "failed to load config", updated |-> 0]
          /\ UNCHANGED config
     ELSE IF ~recent
     THEN /\ out' = [cmd |-> "learn", err |-> "", recent |-> FALSE, updated |-> 0,
                     added |-> 0]
          /\ UNCHANGED config
     ELSE LET cfg == Load(Deref(config))
              ex  == ExtractPatterns(memo, cfg.Language, disk, order, tsOrder)
              merged == mergePatterns(cfg.Patterns, ex.patterns)
              existingIDs == {cfg.Patterns[i].ID : i \in 1..Len(cfg.Patterns)}
              added == ex.patterns
          IN  IF ex.err # ""
              THEN /\ out' = [cmd |-> "learn", err |-> ex.err, updated |-> 0]
                   /\ UNCHANGED config
              ELSE /\ config' = Ptr([cfg EXCEPT !.Patterns = merged.patterns \o added])
                   /\ out' = [cmd |-> "learn", err |-> "", recent |-> TRUE,
                              updated |-> merged.updated + Len(added),
                              added |-> Len(added)]
  /\ UNCHANGED <<loopvar, disk, edits, blessed>>

\* cr learn; recent says whether the detector found recently merged files
LearnCmd(memo, recent, order, tsOrder) ==
  /\ out = Idle
  /\ IF config = Nil
     THEN /\ out' = [cmd |-> "learn", err |-> "failed to load config", updated |-> 0]
          /\ UNCHANGED config
     ELSE IF ~recent
     THEN /\ out' = [cmd |-> "learn", err |-> "", recent |-> FALSE, updated |-> 0,
                     added |-> 0]
          /\ UNCHANGED config
     ELSE LET cfg == Load(Deref(config))
              ex  == ExtractPatterns(memo, cfg.Language, disk, order, tsOrder)
              merged == mergePatterns(cfg.Patterns, ex.patterns)
              existingIDs == {cfg.Patterns[i].ID : i \in 1..Len(cfg.Patterns)}
              added == SelectSeq(ex.patterns, LAMBDA newPat : newPat.ID \notin existingIDs)
          IN  IF ex.err # ""
              THEN /\ out' = [cmd |-> "learn", err |-> ex.err, updated |-> 0]
                   /\ UNCHANGED config
              ELSE /\ config' = Ptr([cfg EXCEPT !.Patterns = merged.patterns \o added])
                   /\ out' = [cmd |-> "learn", err |-> "", recent |-> TRUE,
                              updated |-> merged.updated + Len(added),
                              added |-> Len(added)]
  /\ UNCHANGED <<loopvar, disk, edits, blessed>>

\* the loop of cr bless that appends the blessed example to the first pattern
\* with the id of the match
AppendBlessed(pats, id, example) ==
  LET hit == {i \in 1..Len(pats) : pats[i].ID = id}
  IN  IF hit = {} THEN pats
      ELSE LET i == CHOOSE i \in hit : \A k \in hit : i <= k
           IN  [pats EXCEPT ![i].ConfigBlessed = Append(pats[i].ConfigBlessed, example)]

\* cr bless file --weight weight
BlessCmd(memo, filePath, weight) ==
  /\ out = Idle
  /\ blessed < MaxBless
  /\ IF filePath \notin disk
     THEN /\ out' = [cmd |-> "bless", err |-> "file not found", file |-> filePath]
          /\ UNCHANGED <<config, blessed>>
     ELSE IF config = Nil
     THEN /\ out' = [cmd |-> "bless", err |-> "failed to load config", file |-> filePath]
          /\ UNCHANGED <<config, blessed>>
     ELSE LET cfg == Load(Deref(config))
              r   == MatchFile(memo, loopvar, disk, cfg.Patterns,
                               cfg.Settings.AutoApproveThreshold, filePath)
          IN  IF r.err # ""
              THEN /\ out' = [cmd |-> "bless", err |-> "failed to analyze file", file |-> filePath]
                   /\ UNCHANGED <<config, blessed>>
              ELSE IF Deref(r.match).Pattern = Nil
              THEN /\ out' = [cmd |-> "bless", err |-> "no matching pattern found", file |-> filePath]
                   /\ UNCHANGED <<config, blessed>>
              ELSE LET example == [Path |-> filePath, BlessedBy |-> "config",
                                   Reason |-> "", Weight |-> weight]
                       id == Deref(Deref(r.match).Pattern).ID
                   IN  /\ config' = Ptr([cfg EXCEPT !.Patterns =
                                           AppendBlessed(cfg.Patterns, id, example)])
                       /\ blessed' = blessed + 1
                       /\ out' = [cmd |-> "bless", err |-> "", file |-> filePath,
                                  weight |-> weight, before |-> cfg.Patterns,
                                  call |-> r,
                                  pattern |-> Deref(Deref(r.match).Pattern).Name]
  /\ UNCHANGED <<loopvar, disk, edits>>

\* the process exits
Exit ==
  /\ out # Idle
  /\ out' = Idle
  /\ UNCHANGED <<loopvar, disk, config, edits, blessed>>

Next ==
  \E memo \in {Memo} :
    \/ \E p \in Writable : WriteFile(p)
    \/ \E p \in Deletable : DeleteFile(p)
    \/ \E order \in Orders(GroupKeys(disk)), tsOrder \in Orders(TSGroupKeys(disk)) :
         InitCmd(memo, order, tsOrder)
    \/ \E files \in CheckArgs, flag \in ThresholdFlags, format \in Formats :
         CheckCmd(memo, files, flag, format)
    \/ \E recent \in BOOLEAN, order \in Orders(GroupKeys(disk)),
          tsOrder \in Orders(TSGroupKeys(disk)) :
         LearnCmd(memo, recent, order, tsOrder)
    \/ \E p \in BlessArgs, weight \in BlessWeights : BlessCmd(memo, p, weight)
    \/ Exit

Spec == Init /\ [][Next]_vars

(***************************************************************************)
(* The MatchFile calls of the running command: cr check makes one per file *)
(* argument, cr bless one.  Each is held with the matcher it was made on.  *)
(***************************************************************************)
MatchFileCalls ==
  IF out.cmd = "check" /\ out.err = ""
  THEN {[pats |-> Deref(config).Patterns, threshold |-> out.threshold,
         file |-> out.calls[i].file, err |-> out.calls[i].err,
         match |-> out.calls[i].match, compared |-> out.calls[i].compared] :
          i \in 1..Len(out.calls)}
  ELSE IF out.cmd = "bless" /\ out.err = ""
  THEN {[pats |-> out.before,
         threshold |-> Deref(config).Settings.AutoApproveThreshold,
         file |-> out.file, err |-> out.call.err,
         match |-> out.call.match, compared |-> out.call.compared]}
  ELSE {}

\* the calls that returned a result
Results == {m \in MatchFileCalls : m.err = ""}

Returned(m) == Deref(m.match)

\* the reference field of a result that its MatchType names
ReturnedRef(r) ==
  CASE r.MatchType = TierGolden     -> r.GoldenRef
    [] r.MatchType = TierBlessed    -> r.BlessedRef
    [] r.MatchType = TierDiscovered -> r.DiscoveredRef
    [] OTHER -> Nil

\* the reference of the store that the comparison c was made against
TripleRef(pats, c) == TierOf(pats[c.Pattern], c.Tier)[c.Ref]

TierRank(tier) ==
  CASE tier = TierGolden -> 1 [] tier = TierBlessed -> 2 [] tier = TierDiscovered -> 3

\* the comparisons are in pattern order, then golden, blessed, discovered, then
\* slice order
InOrder(cs) ==
  \A i, j \in 1..Len(cs) :
    i < j => \/ cs[i].Pattern < cs[j].Pattern
             \/ /\ cs[i].Pattern = cs[j].Pattern
                /\ TierRank(cs[i].Tier) < TierRank(cs[j].Tier)
             \/ /\ cs[i].Pattern = cs[j].Pattern
                /\ cs[i].Tier = cs[j].Tier
                /\ cs[i].Ref < cs[j].Ref

\* the comparisons are those of the patterns that pass shouldTryPattern, one per
\* reference of each tier
Covers(m) ==
  /\ \A i \in 1..Len(m.compared) :
       shouldTryPattern(m.file, m.pats[m.compared[i].Pattern])
  /\ \A pi \in 1..Len(m.pats) :
       shouldTryPattern(m.file, m.pats[pi]) =>
         \A tier \in {TierGolden, TierBlessed, TierDiscovered} :
           \A ri \in 1..Len(TierOf(m.pats[pi], tier)) :
             \E i \in 1..Len(m.compared) :
               /\ m.compared[i].Pattern = pi
               /\ m.compared[i].Tier = tier
               /\ m.compared[i].Ref = ri
               /\ m.compared[i].Path = TierOf(m.pats[pi], tier)[ri].Path
               /\ m.compared[i].Weight = TierOf(m.pats[pi], tier)[ri].Weight

\* the first comparison of cs, not empty, with the largest weighted score
FirstLargest(cs) ==
  CHOOSE i \in 1..Len(cs) :
    /\ \A j \in 1..Len(cs) : F64Le(cs[j].WeightedScore, cs[i].WeightedScore)
    /\ \A j \in 1..(i - 1) : F64Lt(cs[j].WeightedScore, cs[i].WeightedScore)

\* C1: every call of MatchFile that returns a result has compared the candidate
\* with the references of every pattern that passes the pre-filter, in pattern
\* order, golden then blessed then discovered, slice order inside the tier, and
\* the result is the first comparison with the largest weighted score: its
\* pattern, tier, reference, raw score and weighted score.
C1_FirstLargestIsReturned ==
  \A m \in Results :
    /\ InOrder(m.compared)
    /\ Covers(m)
    /\ m.compared # <<>> =>
         LET w == m.compared[FirstLargest(m.compared)]
             r == Returned(m)
         IN  /\ r.Pattern = Ptr(m.pats[w.Pattern])
             /\ r.MatchType = w.Tier
             /\ ReturnedRef(r) = Ptr(TripleRef(m.pats, w))
             /\ r.Score = w.Score
             /\ r.WeightedScore = w.WeightedScore

\* C2: in every result of MatchFile, AutoApprove is (Score >= threshold), Score
\* being the raw score of the winning comparison, whatever the weight of the
\* reference and the weighted score.
C2_AutoApproveFromRawScore ==
  \A m \in Results :
    Returned(m).AutoApprove = F64Ge(Returned(m).Score, m.threshold)

\* a discovered reference scores 96 at weight 1.0, a golden one 80 at weight
\* 2.0, the threshold is 95: the golden one is returned (160) and not approved
C2_GoldenWinsNotApproved ==
  \E m \in Results :
    /\ m.threshold = F64FromInt(95)
    /\ \E i \in 1..Len(m.compared) :
         /\ m.compared[i].Tier = TierDiscovered
         /\ m.compared[i].Score = F64FromInt(96)
         /\ m.compared[i].Weight = F64FromInt(1)
    /\ \E j \in 1..Len(m.compared) :
         /\ m.compared[j].Tier = TierGolden
         /\ m.compared[j].Score = F64FromInt(80)
         /\ m.compared[j].Weight = F64FromInt(2)
         /\ Returned(m).GoldenRef = Ptr(TripleRef(m.pats, m.compared[j]))
    /\ Returned(m).MatchType = TierGolden
    /\ Returned(m).Score = F64FromInt(80)
    /\ Returned(m).WeightedScore = F64FromInt(160)
    /\ ~Returned(m).AutoApprove

\* C3: a result that names a pattern records the winning comparison itself: the
\* pattern whose tier holds the winning reference, that reference, and the raw
\* score, weighted score and deviations of that comparison.
C3_ResultRecordsWinningTriple ==
  \A m \in Results :
    Returned(m).Pattern # Nil =>
      \E i \in 1..Len(m.compared) :
        LET w == m.compared[i]
            r == Returned(m)
        IN  /\ r.Score = w.Score
            /\ r.WeightedScore = w.WeightedScore
            /\ r.MatchType = w.Tier
            /\ r.Deviations = w.Deviations
            /\ r.Pattern = Ptr(m.pats[w.Pattern])
            /\ ReturnedRef(r) = Ptr(TripleRef(m.pats, w))

\* C4: MatchFile returns the terminal result exactly when it compared the
\* candidate with no reference; after one comparison or more the result names a
\* pattern and a reference.
C4_TerminalOnlyWithoutComparison ==
  \A m \in Results :
    /\ Returned(m).Pattern = Nil => m.compared = <<>>
    /\ m.compared # <<>> => Returned(m).Pattern # Nil /\ ReturnedRef(Returned(m)) # Nil

\* C5: with no pattern in the store, MatchFile on a candidate that parses returns
\* no error and the result has no pattern, raw score 0, exactly one deviation,
\* of type novel, and AutoApprove false.
C5_EmptyStoreIsTerminal ==
  \A m \in MatchFileCalls :
    m.pats = <<>> /\ ParseOK(disk, m.file) =>
      /\ m.err = ""
      /\ Returned(m).Pattern = Nil
      /\ Returned(m).Score = F64Zero
      /\ Len(Returned(m).Deviations) = 1
      /\ Returned(m).Deviations[1].Type = DeviationNovel
      /\ Returned(m).AutoApprove = FALSE

\* cr check of a file that parses, on a configuration init wrote with no pattern
C5_CheckedOnEmptyStore ==
  \E m \in MatchFileCalls :
    /\ m.pats = <<>>
    /\ ParseOK(disk, m.file)
    /\ out.cmd = "check"
    /\ Returned(m).MatchType = NoMatch

\* the weight the code gives a reference of a tier when none is asked for
DefaultWeight(tier) ==
  CASE tier = TierGolden     -> GoldenWeight
    [] tier = TierBlessed    -> DefaultBlessWeight
    [] tier = TierDiscovered -> DiscoveredWeight

\* C6: the reference a result returns is never the lower-tier one of two
\* references of the winning pattern that name the same file, so score the same
\* against the candidate, and carry the default weights of their tiers.
C6_LowerTierTwinNotReturned ==
  \A m \in Results :
    Returned(m).Pattern # Nil =>
      LET r       == Returned(m)
          pattern == m.pats[m.compared[FirstLargest(m.compared)].Pattern]
          ref     == Deref(ReturnedRef(r))
      IN  ~ \E tier \in {TierGolden, TierBlessed, TierDiscovered} :
              /\ TierRank(tier) < TierRank(r.MatchType)
              /\ ref.Weight = DefaultWeight(r.MatchType)
              /\ \E k \in 1..Len(TierOf(pattern, tier)) :
                   /\ TierOf(pattern, tier)[k].Path = ref.Path
                   /\ TierOf(pattern, tier)[k].Weight = DefaultWeight(tier)

\* C7: in the configuration file, whatever init, learn and bless runs wrote it,
\* every pattern has each golden weight >= each blessed weight >= each
\* discovered weight.
C7_TierWeightsOrdered ==
  config # Nil =>
    \A i \in 1..Len(Deref(config).Patterns) :
      LET pattern == Deref(config).Patterns[i]
      IN  /\ \A g \in 1..Len(pattern.AnnotatedGolden), b \in 1..Len(pattern.ConfigBlessed) :
               F64Ge(pattern.AnnotatedGolden[g].Weight, pattern.ConfigBlessed[b].Weight)
          /\ \A b \in 1..Len(pattern.ConfigBlessed), d \in 1..Len(pattern.Discovered) :
               F64Ge(pattern.ConfigBlessed[b].Weight, pattern.Discovered[d].Weight)
          /\ \A g \in 1..Len(pattern.AnnotatedGolden), d \in 1..Len(pattern.Discovered) :
               F64Ge(pattern.AnnotatedGolden[g].Weight, pattern.Discovered[d].Weight)

\* C8: MatchFile on a candidate that parses returns no error, whatever its
\* references; a reference that is missing or does not parse scores 50.0 and
\* weighs 50.0 times its weight, and every reference of every pattern that
\* passes the pre-filter is compared all the same.
C8_DegradedReferenceScoresFifty ==
  \A m \in MatchFileCalls :
    ParseOK(disk, m.file) =>
      /\ m.err = ""
      /\ m.match # Nil
      /\ Covers(m)
      /\ \A i \in 1..Len(m.compared) :
           ~ParseOK(disk, m.compared[i].Path) =>
             /\ m.compared[i].Score = F64FromInt(50)
             /\ m.compared[i].WeightedScore = F64Mul(F64FromInt(50), m.compared[i].Weight)

\* one call compares the candidate with a reference that is missing, with one
\* that does not parse, and after them with one that parses
C8_DegradedThenCompared ==
  \E m \in Results :
    \E i, j, k \in 1..Len(m.compared) :
      /\ m.compared[i].Path \notin disk
      /\ m.compared[j].Path \in disk
      /\ ~Source[m.compared[j].Path].Parses
      /\ i < k
      /\ j < k
      /\ ParseOK(disk, m.compared[k].Path)
      /\ Returned(m).Score = F64FromInt(50)

\* the imports of the reference of comparison c that the candidate of m lacks,
\* as positions of the import list of the reference
AbsentImports(m, c) ==
  {k \in 1..Len(extractImports(Source[c.Path])) :
     ~contains(extractImports(Source[m.file]), extractImports(Source[c.Path])[k])}

ImportDeviationsOf(c) == SelectSeq(c.Deviations, LAMBDA d : d.Element = "import")

OtherDeviationsOf(c) == SelectSeq(c.Deviations, LAMBDA d : d.Element # "import")

\* C9: a comparison with a reference that parses has one missing/warning
\* deviation of element "import" per import of the reference the candidate
\* lacks, naming it as expected, and none for what the candidate imports besides;
\* its score is 100 less 5 per such import, less the other deductions, times the
\* similarity.  Reference imports A, B, C and candidate import A give the two
\* deviations B and C and 90 before the similarity is multiplied in.
C9_FivePerAbsentImport ==
  /\ \A m \in Results :
       \A i \in 1..Len(m.compared) :
         ParseOK(disk, m.compared[i].Path) =>
           LET c      == m.compared[i]
               absent == AbsentImports(m, c)
               devs   == ImportDeviationsOf(c)
           IN  /\ Len(devs) = Cardinality(absent)
               /\ \A d \in 1..Len(devs) :
                    /\ devs[d].Type = DeviationMissing
                    /\ devs[d].Severity = SeverityWarning
               /\ {devs[d].Expected : d \in 1..Len(devs)}
                    = {extractImports(Source[c.Path])[k] : k \in absent}
               /\ c.Score =
                    F64Max(F64Zero,
                           F64Mul(F64FromInt(100 - 5 * Cardinality(absent)
                                               - 10 * Len(OtherDeviationsOf(c))),
                                  StructureSimilarity[m.file, c.Path]))
  /\ ScoreAfterImports(<<"A">>, <<"A", "B", "C">>) = 90
  /\ Len(ImportDeviations(<<"A">>, <<"A", "B", "C">>, 1)) = 2
  /\ ImportDeviations(<<"A">>, <<"A", "B", "C">>, 1)[1].Expected = "B"
  /\ ImportDeviations(<<"A">>, <<"A", "B", "C">>, 1)[2].Expected = "C"

\* one call compares the candidate with a reference of which it lacks two
\* imports and nothing else, 90 before the similarity, and with a reference that
\* lacks an import of the candidate
C9_TwoAbsentImports ==
  \E m \in Results :
    /\ \E i \in 1..Len(m.compared) :
         /\ ParseOK(disk, m.compared[i].Path)
         /\ Cardinality(AbsentImports(m, m.compared[i])) = 2
         /\ Len(m.compared[i].Deviations) = 2
         /\ ScoreBeforeSimilarity(Source[m.file], Source[m.compared[i].Path]) = 90
    /\ \E j \in 1..Len(m.compared) :
         /\ ParseOK(disk, m.compared[j].Path)
         /\ \E k \in 1..Len(extractImports(Source[m.file])) :
              ~contains(extractImports(Source[m.compared[j].Path]),
                        extractImports(Source[m.file])[k])

\* 0 <= x <= 100
InRange(x) == F64Ge(x, F64Zero) /\ F64Le(x, F64FromInt(100))

\* C10: every raw score of the matcher, of a comparison and of a result, the
\* terminal one included, is in the range 0 to 100.
C10_RawScoreInRange ==
  \A m \in Results :
    /\ InRange(Returned(m).Score)
    /\ \A i \in 1..Len(m.compared) : InRange(m.compared[i].Score)

\* the histograms of the two files of comparison c of call m
CandidateHistogram(m) == countNodeTypes(Source[m.file])

ReferenceHistogram(c) == countNodeTypes(Source[c.Path])

\* C11: the similarity of the histograms of every candidate and reference that
\* parse is in the range 0 to 1, and is 1 when the two histograms are the same;
\* two histograms with no node kind in common have similarity 0, and so has
\* every histogram with an empty one.
C11_CosineInUnitRange ==
  /\ \A m \in Results :
       \A i \in 1..Len(m.compared) :
         ParseOK(disk, m.compared[i].Path) =>
           LET a   == CandidateHistogram(m)
               b   == ReferenceHistogram(m.compared[i])
               sim == cosineSimilarity(a, b)
           IN  /\ F64Ge(sim, F64Zero)
               /\ F64Le(sim, F64FromInt(1))
               /\ a = b => sim = F64FromInt(1)
  /\ cosineSimilarity([k \in {"File"} |-> 1], [k \in {"Ident"} |-> 2]) = F64Zero
  /\ cosineSimilarity([k \in {} |-> 0], [k \in {"Ident"} |-> 2]) = F64Zero
  /\ cosineSimilarity([k \in {"File"} |-> 1], [k \in {} |-> 0]) = F64Zero

GroupOf(tree, patternType) ==
  {p \in tree : ParseOK(tree, p) /\ InferredType[p] = patternType}

\* the golden annotations of the tree that name patternType
GoldensOf(tree, patternType) ==
  {i \in 1..Len(FindGoldenExamples(tree)) :
     FindGoldenExamples(tree)[i].Pattern = patternType}

\* the patterns cr init has just written
Extracted ==
  IF out.cmd = "init" /\ out.err = "" /\ out.saved
  THEN Deref(config).Patterns ELSE <<>>

InitSaved == out.cmd = "init" /\ out.err = "" /\ out.saved

\* the patterns cr init has just written for a Go tree
ExtractedGo ==
  IF InitSaved /\ Deref(config).Language = "go" THEN Extracted ELSE <<>>

\* C13: after cr init on a Go tree, a category whose group has exactly two
\* files has a Pattern in the written configuration if and only if the tree
\* holds a golden annotation naming the category.
C13_TwoFilesNeedGolden ==
  InitSaved /\ Deref(config).Language = "go" =>
    \A t \in GroupKeys(disk) :
      Cardinality(GroupOf(disk, t)) = 2 =>
        ((\E i \in 1..Len(Extracted) : Extracted[i].Type = t)
           <=> GoldensOf(disk, t) # {})

\* cr init has met a category of two files and no golden, and written no
\* Pattern for it
C13_TwoFilesNoGolden ==
  /\ InitSaved /\ Deref(config).Language = "go"
  /\ \E t \in GroupKeys(disk) :
       /\ Cardinality(GroupOf(disk, t)) = 2
       /\ GoldensOf(disk, t) = {}
       /\ \A i \in 1..Len(Extracted) : Extracted[i].Type # t

\* the files of the group that import imp
Importers(group, imp) ==
  {p \in group : \E j \in 1..Len(Source[p].Imports) : Source[p].Imports[j] = imp}

\* the imports of the files of the group
ImportsOf(group) ==
  {Source[p].Imports[j] : <<p, j>> \in {<<p, j>> \in group \X (1..MaxImports) :
                                          j <= Len(Source[p].Imports)}}

\* C14: in every Pattern cr init writes, an import of the group's files is
\* listed as required if and only if at least 80% of the files of the group
\* import it, and each required import has exactly one structure element, of
\* type import, whose rule is the import quoted as a literal.
C14_RequiredIffEightyPercent ==
  \A i \in 1..Len(ExtractedGo) :
    LET group     == GroupOf(disk, ExtractedGo[i].Type)
        structure == ExtractedGo[i].Structure
        required  == {structure.Required[k] : k \in 1..Len(structure.Required)}
    IN  /\ required \subseteq ImportsOf(group)
        /\ \A imp \in ImportsOf(group) :
             imp \in required <=>
               10 * Cardinality(Importers(group, imp)) >= 8 * Cardinality(group)
        /\ \A imp \in required :
             Cardinality({k \in 1..Len(structure.Elements) :
                            structure.Elements[k].Name = imp}) = 1
        /\ \A k \in 1..Len(structure.Elements) :
             /\ structure.Elements[k].Name \in required
             /\ structure.Elements[k].Type = "import"
             /\ structure.Elements[k].Pattern = QuoteMeta(structure.Elements[k].Name)

\* the paths of a tier
PathsOf(tier) == {tier[k].Path : k \in 1..Len(tier)}

\* C15: in every Pattern cr init writes for a Go tree, no path is in both the
\* golden and the discovered tier, every file of the group that is not in the
\* golden tier is in the discovered tier exactly once with weight 1.0 and no
\* other file is, and the golden tier is the list of the golden annotations
\* that name the category, in the order they were found.
C15_TiersDisjoint ==
  \A i \in 1..Len(ExtractedGo) :
    LET pattern == ExtractedGo[i]
        group   == GroupOf(disk, pattern.Type)
    IN  /\ PathsOf(pattern.AnnotatedGolden) \cap PathsOf(pattern.Discovered) = {}
        /\ PathsOf(pattern.Discovered) = group \ PathsOf(pattern.AnnotatedGolden)
        /\ \A p \in group \ PathsOf(pattern.AnnotatedGolden) :
             Cardinality({k \in 1..Len(pattern.Discovered) :
                            pattern.Discovered[k].Path = p}) = 1
        /\ \A k \in 1..Len(pattern.Discovered) :
             pattern.Discovered[k].Weight = F64FromInt(1)
        /\ pattern.AnnotatedGolden =
             SelectSeq(FindGoldenExamples(disk),
                       LAMBDA g : g.Pattern = pattern.Type)

\* cr init has written a Pattern whose group holds a golden file and a file
\* that is not golden
C15_GoldenInGroup ==
  \E i \in 1..Len(ExtractedGo) :
    LET group == GroupOf(disk, ExtractedGo[i].Type)
    IN  /\ group \cap PathsOf(ExtractedGo[i].AnnotatedGolden) # {}
        /\ group \ PathsOf(ExtractedGo[i].AnnotatedGolden) # {}
        /\ ExtractedGo[i].Discovered # <<>>

\* the files of the tree that the TypeScript builder classifies as patternType
TSGroupOf(tree, patternType) ==
  {p \in tree \cap TSPaths :
     /\ \E i \in 1..Len(findTypeScriptFiles(tree)) : findTypeScriptFiles(tree)[i] = p
     /\ TSInferredType[p] = patternType}

\* the confidence of the specification for a group of n files, in hundredths
StepConfidence(n) ==
  IF n >= 10 THEN 90 ELSE IF n >= 5 THEN 75 ELSE IF n >= 3 THEN 60 ELSE 50

\* C16: every Pattern cr init writes, for a Go tree and for a TypeScript tree,
\* has the confidence the step function gives for the size of its group:
\* 0.9 from 10 files, 0.75 from 5, 0.6 from 3 and 0.5 below.
C16_ConfidenceIsStepOfGroupSize ==
  \A i \in 1..Len(Extracted) :
    LET n == IF Deref(config).Language = "go"
             THEN Cardinality(GroupOf(disk, Extracted[i].Type))
             ELSE Cardinality(TSGroupOf(disk, Extracted[i].Type))
    IN  /\ Extracted[i].SeenCount = n
        /\ Extracted[i].Confidence = StepConfidence(n)

(***************************************************************************)
(* The classifier on its own: inferPatternType applied to the fingerprints *)
(* of a catalogue that combines the paths, function names, type names and  *)
(* package names its rules look at.                                        *)
(***************************************************************************)
FingerprintPaths ==
  {"pkg/x.go", "app/handlers/x.go", "app/controllers/x.go", "app/services/x.go",
   "app/repository/x.go", "app/middleware/x.go", "app/models/x.go"}

FingerprintFunctions ==
  {<<>>, <<Fn("UserHandler")>>, <<Fn("AuthMiddleware")>>,
   <<Fn("Run"), Fn("AuthMiddleware"), Fn("UserHandler")>>}

FingerprintTypes ==
  {<<>>, <<Struct("Options")>>, <<Struct("UserService")>>,
   <<Struct("Options"), Struct("UserRepository"), Struct("UserService")>>}

FingerprintPackages == {"x", "handlers", "models", "config", "matcher", "repo"}

Fingerprints ==
  [Path : FingerprintPaths, Package : FingerprintPackages, Imports : {<<>>},
   Functions : FingerprintFunctions, Types : FingerprintTypes]

ClassifyInit ==
  /\ loopvar = PerIteration
  /\ disk = {}
  /\ config = Nil
  /\ out \in {[cmd |-> "fingerprint", file |-> f] : f \in Fingerprints}
  /\ edits = 0
  /\ blessed = 0

\* the classifier is applied to the fingerprint
Classify ==
  /\ out.cmd = "fingerprint"
  /\ out' = [cmd |-> "classified", file |-> out.file,
             category |-> inferPatternType(out.file)]
  /\ UNCHANGED <<loopvar, disk, config, edits, blessed>>

SpecClassify == ClassifyInit /\ [][Classify]_vars

\* the categories of the directory segments found in the path
DirectoryCategories(f) ==
  {c \in {PatternHTTPHandler, PatternService, PatternRepository, PatternMiddleware,
          PatternModel} :
     \E seg \in (CASE c = PatternHTTPHandler -> {"/handlers/", "/controllers/"}
                   [] c = PatternService     -> {"/services/"}
                   [] c = PatternRepository  -> {"/repository/", "/repositories/"}
                   [] c = PatternMiddleware  -> {"/middleware/"}
                   [] c = PatternModel       -> {"/models/"}) :
       StringsContains(f.Path, seg)}

\* the categories of the function-name suffixes found
FunctionCategories(f) ==
  {c \in {PatternHTTPHandler, PatternMiddleware} :
     \E i \in 1..Len(f.Functions) :
       HasSuffix(f.Functions[i].Name,
                 IF c = PatternHTTPHandler THEN "Handler" ELSE "Middleware")}

\* the categories of the type-name suffixes found
TypeCategories(f) ==
  {c \in {PatternService, PatternRepository} :
     \E i \in 1..Len(f.Types) :
       HasSuffix(f.Types[i].Name,
                 IF c = PatternService THEN "Service" ELSE "Repository")}

\* C17: the category of a fingerprint is one of a directory-segment rule if
\* one matches; otherwise one of a function-name suffix rule if one matches;
\* otherwise one of a type-name suffix rule if one matches; otherwise what the
\* package-name vocabulary gives, which is utility for a name that is not in
\* it.
C17_HigherLevelDecides ==
  out.cmd = "classified" =>
    LET f == out.file
    IN  IF DirectoryCategories(f) # {} THEN out.category \in DirectoryCategories(f)
        ELSE IF FunctionCategories(f) # {} THEN out.category \in FunctionCategories(f)
        ELSE IF TypeCategories(f) # {} THEN out.category \in TypeCategories(f)
        ELSE /\ out.category = inferFromPackageName(f.Package)
             /\ f.Package = "x" => out.category = PatternUtil

\* a fingerprint with no directory segment, a function named ...Handler, a
\* type named ...Service and a package name of the vocabulary has been
\* classified as a handler
C17_FunctionBeatsTypeAndPackage ==
  /\ out.cmd = "classified"
  /\ DirectoryCategories(out.file) = {}
  /\ FunctionCategories(out.file) = {PatternHTTPHandler}
  /\ TypeCategories(out.file) = {PatternService}
  /\ out.file.Package = "models"
  /\ out.category = PatternHTTPHandler

\* the candidate path fails the file-name glob or the package path of the
\* detection rule of the pattern
FailsRule(filePath, pattern) ==
  \/ /\ pattern.Detection.FilePattern # ""
     /\ ~StringsContains(filePath, RemoveAll(pattern.Detection.FilePattern, "*"))
  \/ /\ pattern.Detection.PackagePath # ""
     /\ ~StringsContains(filePath, RemoveAll(pattern.Detection.PackagePath, "*"))

\* C18: in every call of MatchFile that returns a result, a pattern whose
\* detection rule the candidate path fails has none of its references compared
\* and is not the pattern of the result; every reference of a pattern with no
\* file-name glob and no package path is compared; and the raw score of every
\* comparison is that of the candidate and the reference alone.
C18_FailedPatternSkipped ==
  \A m \in Results :
    /\ \A pi \in 1..Len(m.pats) :
         /\ FailsRule(m.file, m.pats[pi]) =>
              /\ \A i \in 1..Len(m.compared) : m.compared[i].Pattern # pi
              /\ Returned(m).Pattern # Ptr(m.pats[pi])
         /\ (m.pats[pi].Detection.FilePattern = ""
               /\ m.pats[pi].Detection.PackagePath = "") =>
              \A tier \in {TierGolden, TierBlessed, TierDiscovered} :
                \A ri \in 1..Len(TierOf(m.pats[pi], tier)) :
                  \E i \in 1..Len(m.compared) :
                    /\ m.compared[i].Pattern = pi
                    /\ m.compared[i].Tier = tier
                    /\ m.compared[i].Ref = ri
    /\ \A i \in 1..Len(m.compared) :
         m.compared[i].Score =
           scoreAgainstReference(Memo, disk, m.file, m.compared[i].Path).score

\* the positions of the files of a check run that parse, in input order
ParsedPositions(files) ==
  SelectSeq([k \in 1..Len(files) |-> k], LAMBDA k : ParseOK(disk, files[k]))

\* C19: in a run of cr check, MatchFile is called on every file of the list;
\* the call on a file that does not parse returns an error and no result, the
\* call on a file that parses returns a result and no error; and the matches
\* handed to the reporter are the results of the files that parse, one each,
\* in the order of the list.
C19_OneMatchPerParsedFile ==
  out.cmd = "check" /\ out.err = "" =>
    LET parsed == ParsedPositions(out.files)
    IN  /\ Len(out.calls) = Len(out.files)
        /\ \A k \in 1..Len(out.files) :
             /\ out.calls[k].file = out.files[k]
             /\ IF ParseOK(disk, out.files[k])
                THEN out.calls[k].err = "" /\ out.calls[k].match # Nil
                ELSE out.calls[k].err # "" /\ out.calls[k].match = Nil
        /\ Len(out.matches) = Len(parsed)
        /\ \A k \in 1..Len(parsed) :
             /\ out.matches[k].FilePath = out.files[parsed[k]]
             /\ out.matches[k] = Deref(out.calls[parsed[k]].match)

\* cr check on a file that does not parse followed by one that parses and is
\* compared with a reference
C19_FailedThenParsed ==
  /\ out.cmd = "check" /\ out.err = ""
  /\ Len(out.files) = 2
  /\ ~ParseOK(disk, out.files[1])
  /\ ParseOK(disk, out.files[2])
  /\ out.calls[2].compared # <<>>
  /\ Len(out.matches) = 1

(***************************************************************************)
(* The exit test of cr check on its own: the loop over matches that        *)
(* follows the report, applied to lists of up to MaxMatches matches whose   *)
(* deviations are of warning and of error severity.                         *)
(***************************************************************************)
MaxMatches == 2

ExitMatches ==
  LET deviations ==
        {<<>>, <<ImportDeviation("fmt")>>,
         <<[ImportDeviation("fmt") EXCEPT !.Severity = SeverityError]>>,
         <<ImportDeviation("fmt"),
           [ErrorHandlingDeviation EXCEPT !.Severity = SeverityError]>>}
  IN  UNION {[1..n -> [AutoApprove : BOOLEAN, Deviations : deviations]] :
               n \in 0..MaxMatches}

ExitInit ==
  /\ loopvar = PerIteration
  /\ disk = {}
  /\ config = Nil
  /\ out \in {[cmd |-> "reported", format |-> format, matches |-> matches] :
                format \in Formats, matches \in ExitMatches}
  /\ edits = 0
  /\ blessed = 0

\* the exit test runs after the report
ExitTest ==
  /\ out.cmd = "reported"
  /\ out' = [cmd |-> "exited", format |-> out.format, matches |-> out.matches,
             exit |-> ExitCode(out.format, out.matches)]
  /\ UNCHANGED <<loopvar, disk, config, edits, blessed>>

SpecExit == ExitInit /\ [][ExitTest]_vars

Stored == IF config = Nil THEN <<>> ELSE Deref(config).Patterns

\* C21: every pattern of the stored configuration, which init, learn and
\* bless write and check and bless hand to the matcher, has a reference in its
\* golden, blessed or discovered tier.
C21_NoPatternWithoutReference ==
  \A i \in 1..Len(Stored) :
    \/ Stored[i].AnnotatedGolden # <<>>
    \/ Stored[i].ConfigBlessed # <<>>
    \/ Stored[i].Discovered # <<>>

\* cr learn has appended a pattern to a configuration that cr init wrote
C21_LearnAppended ==
  /\ out.cmd = "learn" /\ out.err = ""
  /\ out.added > 0
  /\ Len(Stored) >= 2

\* the patterns extraction yields for the tree and the language of the stored
\* configuration, as a set: the order of the map iteration only permutes them
ExtractedNow ==
  LET ex == ExtractPatterns(Memo, Deref(config).Language, disk,
                            CHOOSE o \in Orders(GroupKeys(disk)) : TRUE,
                            CHOOSE o \in Orders(TSGroupKeys(disk)) : TRUE).patterns
  IN  {ex[k] : k \in 1..Len(ex)}

\* a step of cr learn that found recent files and analysed the tree
LearnStep ==
  /\ out = Idle
  /\ config # Nil
  /\ out'.cmd = "learn" /\ out'.err = "" /\ out'.recent

\* C22: a learn run sets seenCount and confidence of each stored pattern whose
\* id is that of an extracted pattern to the extracted values and changes no
\* other field of it, leaves the other stored patterns as they are, appends
\* each extracted pattern whose id is not in the store once, and reports the
\* number of patterns updated plus the number appended.
C22_LearnUpdatesCountsOnly ==
  [][LearnStep =>
       LET old     == Deref(config).Patterns
           new     == Deref(config').Patterns
           oldIDs  == {old[i].ID : i \in 1..Len(old)}
           twins(i) == {e \in ExtractedNow : e.ID = old[i].ID}
           fresh   == {e \in ExtractedNow : e.ID \notin oldIDs}
           updated == {i \in 1..Len(old) : twins(i) # {}}
       IN  /\ Len(new) = Len(old) + Cardinality(fresh)
           /\ \A i \in 1..Len(old) :
                IF twins(i) = {} THEN new[i] = old[i]
                ELSE \E e \in twins(i) :
                       new[i] = [old[i] EXCEPT !.SeenCount = e.SeenCount,
                                               !.Confidence = e.Confidence]
           /\ {new[k] : k \in (Len(old) + 1)..Len(new)} = fresh
           /\ out'.updated = Cardinality(updated) + Cardinality(fresh)
    ]_vars

\* cr learn has updated a stored pattern and appended an extracted one
C22_UpdatedAndAppended ==
  /\ out.cmd = "learn" /\ out.err = "" /\ out.recent
  /\ out.added > 0
  /\ out.updated > out.added

\* a step of cr bless
BlessStep == out = Idle /\ out'.cmd = "bless"

\* C23: a run of cr bless that succeeds appends one example with the path of
\* the file and the weight given to the blessed tier of the pattern of the
\* winning comparison of MatchFile and changes nothing else of the stored
\* configuration; a run on a file that does not exist or does not parse fails,
\* and a run that fails leaves the stored configuration as it is.
C23_BlessAppendsToBestPattern ==
  [][BlessStep =>
       /\ (out'.file \notin disk \/ ~ParseOK(disk, out'.file)) => out'.err # ""
       /\ IF out'.err = ""
          THEN LET cs  == out'.call.compared
                   w   == cs[FirstLargest(cs)].Pattern
                   old == Deref(config).Patterns
                   example == [Path |-> out'.file, BlessedBy |-> "config",
                               Reason |-> "", Weight |-> out'.weight]
               IN  config' = Ptr([Deref(config) EXCEPT !.Patterns =
                                    [old EXCEPT ![w].ConfigBlessed =
                                       Append(old[w].ConfigBlessed, example)]])
          ELSE config' = config
    ]_vars

\* the imports of the reference of comparison c that the candidate of call m
\* lacks, in the order of the reference
AbsentInOrder(m, c) ==
  SelectSeq(Source[c.Path].Imports,
            LAMBDA imp : \A j \in 1..Len(Source[m.file].Imports) :
                           Source[m.file].Imports[j] # imp)

\* the reference of comparison c has an error check and the candidate has none
LacksErrorCheck(m, c) ==
  Source[c.Path].ErrChecks > 0 /\ Source[m.file].ErrChecks = 0

\* max(0, (100 - 5*m - 10*e) * s) for every candidate and reference that parse
ExpectedRawScore ==
  [f \in {p \in Paths : Source[p].Parses}, r \in {p \in Paths : Source[p].Parses} |->
     LET m == [file |-> f]
         c == [Path |-> r]
         e == IF LacksErrorCheck(m, c) THEN 1 ELSE 0
     IN  F64Max(F64Zero,
                F64Mul(F64FromInt(100 - 5 * Len(AbsentInOrder(m, c)) - 10 * e),
                       StructureSimilarity[f, r]))]

\* C24: a comparison with a reference that parses has the raw score
\* max(0, (100 - 5*m - 10*e) * s) for the m imports of the reference the
\* candidate lacks, e = 1 when only the reference has an error check and 0
\* otherwise, and s the similarity of the two histograms; its deviations are
\* the m import deviations in the order of the reference, then one
\* missing/warning deviation for "error_handling" when e = 1.
C24_RawScoreFormula ==
  \A m \in Results :
    \A i \in 1..Len(m.compared) :
      ParseOK(disk, m.compared[i].Path) =>
        LET c      == m.compared[i]
            absent == AbsentInOrder(m, c)
            e      == IF LacksErrorCheck(m, c) THEN 1 ELSE 0
        IN  /\ c.Score = ExpectedRawScore[m.file, c.Path]
            /\ Len(c.Deviations) = Len(absent) + e
            /\ \A k \in 1..Len(absent) :
                 /\ c.Deviations[k].Type = DeviationMissing
                 /\ c.Deviations[k].Element = "import"
                 /\ c.Deviations[k].Expected = absent[k]
                 /\ c.Deviations[k].Severity = SeverityWarning
            /\ e = 1 =>
                 /\ c.Deviations[Len(absent) + 1].Type = DeviationMissing
                 /\ c.Deviations[Len(absent) + 1].Element = "error_handling"
                 /\ c.Deviations[Len(absent) + 1].Severity = SeverityWarning

\* a comparison in which the candidate lacks two imports of the reference and
\* the error check of the reference, with a raw score above 0
C24_TwoImportsAndErrorCheck ==
  \E m \in Results :
    \E i \in 1..Len(m.compared) :
      /\ ParseOK(disk, m.compared[i].Path)
      /\ Len(AbsentInOrder(m, m.compared[i])) = 2
      /\ LacksErrorCheck(m, m.compared[i])
      /\ F64Gt(m.compared[i].Score, F64Zero)

\* the rearrangements of a pattern list
Rearrangements(pats) ==
  {f \in [1..Len(pats) -> 1..Len(pats)] :
     \A i, j \in 1..Len(pats) : f[i] = f[j] => i = j}

Permuted(pats, f) == [i \in 1..Len(pats) |-> pats[f[i]]]

\* pattern, tier and reference of a result
Winner(r) == <<r.Pattern, r.MatchType, ReturnedRef(r)>>

\* byte order of the characters of pattern ids
IdAlphabet == "_abcdefghijklmnopqrstuvwxyz"

IdChar(ch) == CHOOSE k \in 1..Len(IdAlphabet) : SubSeq(IdAlphabet, k, k) = ch

\* a sorts before b, as Go compares strings
RECURSIVE IdLess(_, _)
IdLess(a, b) ==
  IF b = "" THEN FALSE
  ELSE IF a = "" THEN TRUE
  ELSE LET x == IdChar(SubSeq(a, 1, 1))
           y == IdChar(SubSeq(b, 1, 1))
       IN  IF x # y THEN x < y
           ELSE IdLess(SubSeq(a, 2, Len(a)), SubSeq(b, 2, Len(b)))

\* C25: the pattern, tier and reference MatchFile returns are the same for every
\* rearrangement of the stored pattern list, and when comparisons of two
\* patterns share the largest weighted score the result names the pattern with
\* the smaller id.
C25_StoredOrderIrrelevant ==
  \A m \in Results :
    /\ \A f \in Rearrangements(m.pats) :
         LET again == MatchFile(Memo, loopvar, disk, Permuted(m.pats, f),
                                m.threshold, m.file)
         IN  Winner(Deref(again.match)) = Winner(Returned(m))
    /\ Returned(m).Pattern # Nil =>
         LET top == m.compared[FirstLargest(m.compared)].WeightedScore
         IN  \A i \in 1..Len(m.compared) :
               m.compared[i].WeightedScore = top =>
                 LET other == m.pats[m.compared[i].Pattern].ID
                     named == Deref(Returned(m).Pattern).ID
                 IN  other = named \/ IdLess(named, other)

(***************************************************************************)
(* Import extraction on its own: the import declarations of a candidate    *)
(* and of a reference, in declaration order, are any lists of up to        *)
(* MaxDeclared of three import paths; a path may be declared more than     *)
(* once (a second declaration under another name, or a blank import).      *)
(***************************************************************************)
MaxDeclared == 2

DeclaredImports ==
  UNION {[1..n -> {"fmt", "os", "strings"}] : n \in 0..MaxDeclared}

ImportsInit ==
  /\ loopvar = PerIteration
  /\ disk = {}
  /\ config = Nil
  /\ out \in {[cmd |-> "declared", file |-> a, ref |-> b] :
                a \in DeclaredImports, b \in DeclaredImports}
  /\ edits = 0
  /\ blessed = 0

\* extractImports on the candidate and on the reference, the import part of
\* scoreAgainstReference, and extractCommonStructure on the group of the two
\* and a file that imports nothing
ExtractImports ==
  \E memo \in {Memo} :
    /\ out.cmd = "declared"
    /\ LET fileImports == extractImports([Imports |-> out.file])
           refImports  == extractImports([Imports |-> out.ref])
       IN  out' = [cmd |-> "extracted", file |-> out.file, ref |-> out.ref,
                   fileImports |-> fileImports, refImports |-> refImports,
                   deviations |-> ImportDeviations(fileImports, refImports, 1),
                   score |-> ScoreAfterImports(fileImports, refImports),
                   required |-> extractCommonStructure(memo,
                                  <<[Imports |-> fileImports],
                                    [Imports |-> refImports],
                                    [Imports |-> <<>>]>>).Required]
    /\ UNCHANGED <<loopvar, disk, config, edits, blessed>>

SpecImports == ImportsInit /\ [][ExtractImports]_vars

\* the declared paths, each once, in the order of their first declaration
RECURSIVE FirstOccurrences(_)
FirstOccurrences(decls) ==
  IF decls = <<>> THEN <<>>
  ELSE LET front == FirstOccurrences(SubSeq(decls, 1, Len(decls) - 1))
           last  == decls[Len(decls)]
       IN  IF contains(front, last) THEN front ELSE Append(front, last)

Elems(s) == {s[i] : i \in 1..Len(s)}

\* C26: an extracted import list holds each declared path once, in the order of
\* first declaration; so the import part of the score takes 5 points per
\* reference path the candidate lacks, and the required imports of a group are
\* those of the same group with every repeated declaration removed.
C26_EachImportListedOnce ==
  out.cmd = "extracted" =>
    /\ out.fileImports = FirstOccurrences(out.file)
    /\ out.refImports = FirstOccurrences(out.ref)
    /\ out.score = 100 - 5 * Cardinality(Elems(out.ref) \ Elems(out.file))
    /\ Elems(out.required) =
         Elems(extractCommonStructure(Memo,
                 <<[Imports |-> FirstOccurrences(out.file)],
                   [Imports |-> FirstOccurrences(out.ref)],
                   [Imports |-> <<>>]>>).Required)

\* C27: after cr init on a TypeScript/JavaScript tree, a category has a Pattern
\* in the written configuration only if its group has MinExamples files or
\* more, or the tree holds a golden annotation naming the category.
C27_TypeScriptNeedsThreeOrGolden ==
  InitSaved /\ Deref(config).Language = "typescript" =>
    \A i \in 1..Len(Extracted) :
      \/ Cardinality(TSGroupOf(disk, Extracted[i].Type)) >= MinExamples
      \/ GoldensOf(disk, Extracted[i].Type) # {}

(***************************************************************************)
(* Extraction followed by the pre-filter: the classified fingerprint and   *)
(* two files next to it with the same content form a group of MinExamples  *)
(* without golden example; the loop body of extractGoPatterns builds the   *)
(* pattern, and shouldTryPattern is asked for each discovered path.        *)
(***************************************************************************)
Sibling(f, name) ==
  [f EXCEPT !.Path = SubSeq(f.Path, 1, Len(f.Path) - Len("x.go")) \o name]

Prefilter ==
  \E memo \in {Memo} :
    /\ out.cmd = "classified"
    /\ LET group   == <<out.file, Sibling(out.file, "y.go"), Sibling(out.file, "z.go")>>
           pattern == PatternOfGroup(memo, out.category, group, <<>>, <<>>)
       IN  out' = [cmd |-> "prefiltered", file |-> out.file,
                   category |-> out.category, pattern |-> pattern,
                   tried |-> [i \in 1..Len(pattern.Discovered) |->
                                shouldTryPattern(pattern.Discovered[i].Path, pattern)]]
    /\ UNCHANGED <<loopvar, disk, config, edits, blessed>>

SpecPrefilter == ClassifyInit /\ [][Classify \/ Prefilter]_vars

\* C28: every discovered path of a pattern built by Go extraction passes the
\* pre-filter of that pattern.
C28_DiscoveredPassesPrefilter ==
  out.cmd = "prefiltered" =>
    /\ Len(out.tried) = Len(out.pattern.Discovered)
    /\ \A i \in 1..Len(out.tried) : out.tried[i]

\* C29: no two patterns of the stored configuration have the same id.
C29_StoredIdsDistinct ==
  \A i, j \in 1..Len(Stored) : Stored[i].ID = Stored[j].ID => i = j

\* cr learn has extracted two patterns whose ids are in the store, and appended
\* none
C29_LearnMetStoredIds ==
  /\ out.cmd = "learn" /\ out.err = "" /\ out.recent
  /\ out.added = 0 /\ out.updated >= 2
  /\ Len(Stored) >= 2

(***************************************************************************)
(* The annotation parser on its own: ParseFile applied to the files of up  *)
(* to MaxLines lines drawn from an opening line, a field line, a plain     *)
(* comment, a function declaration and a statement.                        *)
(***************************************************************************)
MaxLines == 3

FileLines ==
  {"// @code-on-rails: golden-example", "// @pattern: util", "// helpers",
   "func Run() {", "x := 1"}

ParseInit ==
  /\ loopvar = PerIteration
  /\ disk = {}
  /\ config = Nil
  /\ out \in {[cmd |-> "opened", lines |-> lines] :
                lines \in UNION {[1..n -> FileLines] : n \in 0..MaxLines}}
  /\ edits = 0
  /\ blessed = 0

\* AnnotationParser.ParseFile runs over the lines
Parse ==
  /\ out.cmd = "opened"
  /\ out' = [cmd |-> "parsed", lines |-> out.lines,
             annotations |-> ParseFile(out.lines)]
  /\ UNCHANGED <<loopvar, disk, config, edits, blessed>>

SpecParse == ParseInit /\ [][Parse]_vars

\* the numbers of the lines that open an annotation block
Opens(lines) ==
  {i \in 1..Len(lines) : HasPrefix(TrimSpace(lines[i]), "// @code-on-rails:")}

\* the number of the first line after line i that is no comment, 0 if none
FirstCode(lines, i) ==
  LET code == {j \in (i + 1)..Len(lines) : ~HasPrefix(TrimSpace(lines[j]), "//")}
  IN  IF code = {} THEN 0 ELSE CHOOSE j \in code : \A k \in code : j <= k

\* C30: ParseFile returns one annotation for every line that opens a block, in
\* line order, each with the number of its opening line; the function name of
\* an annotation is set exactly when the first line after its block that is no
\* comment starts with "func ".
C30_OneAnnotationPerBlock ==
  out.cmd = "parsed" =>
    /\ Len(out.annotations) = Cardinality(Opens(out.lines))
    /\ \A k \in 1..Len(out.annotations) :
         LET i == out.annotations[k].LineNumber
         IN  /\ i \in Opens(out.lines)
             /\ Cardinality({j \in Opens(out.lines) : j <= i}) = k
             /\ out.annotations[k].FunctionName # "" <=>
                  /\ FirstCode(out.lines, i) # 0
                  /\ HasPrefix(TrimSpace(out.lines[FirstCode(out.lines, i)]), "func ")


====
